---- MODULE Spec2Model ----
(***************************************************************************)
(* State-machine model of web/app.py of MapToPoster (MVP 1.6): the job     *)
(* registry `jobs`, the cancellation set `cancelled_jobs`, the preview     *)
(* pipeline run_progressive_generation, the background widen task          *)
(* fetch_other_radiuses_background, the final generation task              *)
(* run_generation, the client endpoints (cancel, switch radius, switch     *)
(* theme, toggle features) and the expiry sweeper cleanup_old_jobs.        *)
(*                                                                         *)
(* Every action is one run of a coroutine between two suspension points    *)
(* of the asyncio event loop (an await that really suspends), which is the *)
(* grain at which the code's steps interleave.                             *)
(*                                                                         *)
(* Optional values (Python None) are encoded as sequences: << >> is None   *)
(* and <<x>> is the value x.                                               *)
(***************************************************************************)
EXTENDS Integers, Sequences, FiniteSets, TLC

\* ------------------------------------------------------------------------
\* Bounds of the model (not program constants)
\* ------------------------------------------------------------------------

\* number of job identifiers uuid4 draws from in one run
MaxJobs == 1
\* seconds the clock advances in one Tick
TimeUnit == 1800
\* the clock stops advancing after this many seconds
MaxTime == 3600
\* number of re-render handlers (switch_theme, toggle_features) in flight
MaxInflight == 1
\* the same number in the runs that let toggle_features calls overlap
MaxOverlap == 2
\* number of job identifiers in the runs with two jobs side by side
MaxPairJobs == 2

\* ------------------------------------------------------------------------
\* Program constants
\* ------------------------------------------------------------------------

INITIAL_RADIUS == 10000
JOB_EXPIRY_SECONDS == 1800
CLEANUP_INTERVAL_SECONDS == 300
AVAILABLE_RADIUSES == {5000, 10000}
LOCKED_RADIUSES == {15000, 20000}
ALL_RADIUSES == AVAILABLE_RADIUSES \cup LOCKED_RADIUSES
\* the radii the widen task iterates over: `for radius in [5000]`
WidenRadius == 5000

HIGHWAY_DRIVE ==
  {"motorway", "motorway_link", "trunk", "trunk_link", "primary",
   "primary_link", "secondary", "secondary_link", "tertiary",
   "tertiary_link", "residential", "living_street", "unclassified", "road"}
HIGHWAY_PATHS ==
  {"footway", "path", "pedestrian", "steps", "track", "bridleway",
   "corridor", "living_street"}
HIGHWAY_CYCLING == {"cycleway", "path"}

\* ------------------------------------------------------------------------
\* Values
\* ------------------------------------------------------------------------

None == << >>
Some(x) == <<x>>
IsNone(o) == o = << >>
Min(a, b) == IF a <= b THEN a ELSE b
Max(a, b) == IF a >= b THEN a ELSE b

JobIds == {"j1", "j2", "j3"}
\* uuid.uuid4().hex[:8]: the identifiers one run can draw
IdPool == IF MaxJobs >= 3 THEN JobIds
          ELSE IF MaxJobs = 2 THEN {"j1", "j2"} ELSE {"j1"}
\* the identifiers drawn where two jobs live side by side
PairPool == IF MaxPairJobs >= 3 THEN JobIds
            ELSE IF MaxPairJobs = 2 THEN {"j1", "j2"} ELSE {"j1"}

\* get_available_themes(): the names of the theme files
AvailableThemes == {"noir", "sunset"}
RequestThemes == {"noir", "bogus"}
SwitchThemes == {"sunset", "bogus"}

TerminalStatus == {"complete", "error", "cancelled"}

\* A street network: nodes and edges; an edge carries its `highway` tag as
\* the list of its values (a single string is a one-element list, a missing
\* tag the empty list).
Edge(u, v, hw) == [u |-> u, v |-> v, highway |-> hw]
GraphLarge ==
  [nodes |-> 1..6,
   edges |-> {Edge(1, 2, <<"residential">>), Edge(2, 3, <<"footway">>),
              Edge(3, 4, <<"cycleway">>), Edge(4, 5, <<"path", "track">>),
              Edge(1, 5, << >>), Edge(5, 6, <<"service">>)}]
GraphSmall ==
  [nodes |-> 1..3,
   edges |-> {Edge(1, 2, <<"residential">>), Edge(2, 3, <<"footway">>)}]
\* what ox.graph_from_point returns for a distance when it does not fail
GraphFor(radius) == IF radius = WidenRadius THEN GraphSmall ELSE GraphLarge

\* a GeoDataFrame of water or park polygons
Gdf(name, radius) == [name |-> name, radius |-> radius]

\* hashlib.md5(str(features).encode()).hexdigest()[:6], tabulated over the 32
\* flag sets in the key order of the job's dict (parks, water, roads_drive,
\* roads_paths, roads_cycling); index = 1 + the flags read as a binary number
\* with True = 0.
FeatureHashTable ==
  <<"e774e4", "c758d7", "401e20", "705a35", "72690b", "a6db51", "f7f362",
    "b7d776", "f11f64", "562a1f", "7eb9cc", "086c3f", "47c6c9", "13c63c",
    "023f9c", "ca4986", "a95894", "022d63", "218838", "1d7fbd", "d9e20b",
    "87a411", "3070db", "ca5bff", "33532a", "04a39f", "9e6b5f", "bf09df",
    "3412e1", "91e60f", "d92ff5", "808ba6">>
Bit(b) == IF b THEN 0 ELSE 1

\* a hash taken over the water and parks flags only
FeatureHashWaterParks(f) ==
  FeatureHashTable[1 + 16 * Bit(f.parks) + 8 * Bit(f.water)]

FeatureHash(f) ==
  FeatureHashTable[1 + 16 * Bit(f.parks) + 8 * Bit(f.water)
                     + 4 * Bit(f.roads_drive) + 2 * Bit(f.roads_paths)
                     + Bit(f.roads_cycling)]

\* the feature flags a preview job starts with
DefaultFeatures ==
  [parks |-> TRUE, water |-> TRUE, roads_drive |-> TRUE,
   roads_paths |-> TRUE, roads_cycling |-> TRUE]

\* highway = data.get('highway', 'unclassified'), a list read as a set
HighwayTypes(e) ==
  IF Len(e.highway) = 0 THEN {"unclassified"}
  ELSE {e.highway[i] : i \in 1..Len(e.highway)}

\* a filter that keeps an edge only when every one of its highway types is
\* included
filter_graph_requiring_all_types(graph, include_types) ==
  LET kept == {e \in graph.edges : HighwayTypes(e) \subseteq include_types}
  IN [nodes |-> {n \in graph.nodes : \E e \in kept : n \in {e.u, e.v}},
      edges |-> kept]

\* filter_graph_by_highway_types on a graph that is not None: the copy with
\* the edges of no included type removed, then the isolated nodes removed
filter_graph_by_highway_types(graph, include_types) ==
  LET kept == {e \in graph.edges : HighwayTypes(e) \cap include_types # {}}
  IN [nodes |-> {n \in graph.nodes : \E e \in kept : n \in {e.u, e.v}},
      edges |-> kept]

\* a filter that removes the edges from its argument instead of from a copy
GraphFilteredInPlace(graph, include_types) ==
  filter_graph_by_highway_types(graph, include_types)

\* the cached graph object after filter_graph_by_highway_types has run on
\* it: the function edits `graph.copy()`, so the argument is as it was
GraphAfterFilter(graph, include_types) == graph

IncludeTypes(features) ==
  (IF features.roads_drive THEN HIGHWAY_DRIVE ELSE {})
  \cup (IF features.roads_paths THEN HIGHWAY_PATHS ELSE {})
  \cup (IF features.roads_cycling THEN HIGHWAY_CYCLING ELSE {})

\* get_filtered_graph without the fallback for an empty set of types
get_filtered_graph_no_fallback(graph_all, features) ==
  IF IsNone(graph_all) THEN None
  ELSE IF features.roads_drive /\ features.roads_paths
          /\ features.roads_cycling THEN graph_all
  ELSE Some(filter_graph_by_highway_types(graph_all[1],
                                          IncludeTypes(features)))

\* get_filtered_graph: graph_all is an optional graph, the result too
get_filtered_graph(graph_all, features) ==
  IF IsNone(graph_all) THEN None
  ELSE IF features.roads_drive /\ features.roads_paths
          /\ features.roads_cycling THEN graph_all
  ELSE IF IncludeTypes(features) = {} THEN graph_all
  ELSE Some(filter_graph_by_highway_types(graph_all[1],
                                          IncludeTypes(features)))

\* the edges render_full_poster plots: none when the graph is None or empty
RenderedEdges(graph) == IF IsNone(graph) THEN {} ELSE graph[1].edges

\* re.sub(r'[\\/:*?"<>|,\s]', '_', request.city.lower())
CitySlug(city) ==
  CASE city = "Paris" -> "paris"
    [] city = "New York" -> "new_york"
    [] OTHER -> city
Cities == {"Paris"}
\* get_coordinates(city, country) when the geocoder resolves the place
CoordsOf(city) == IF city = "Paris" THEN <<48, 2>> ELSE <<40, -74>>

\* compensated_dist = radius * aspect_ratio / 4 with
\* aspect_ratio = max(h, w) / min(h, w); the fraction is dropped
CompensatedDist(radius, width, height) ==
  (radius * Max(height, width)) \div (Min(height, width) * 4)

\* the street progress with max written for min
StreetProgressUncapped(elapsed) == Max(40, 15 + (elapsed * 25) \div 30)

\* int(min(40, 15 + (elapsed / 30) * 25))
StreetProgress(elapsed) == Min(40, 15 + (elapsed * 25) \div 30)
\* int(min(70, 45 + (elapsed / 10) * 25))
FeaturesProgress(elapsed) == Min(70, 45 + (elapsed * 25) \div 10)
\* int(min(95, 75 + (elapsed / 5) * 20))
RenderProgress(elapsed) == Min(95, 75 + (elapsed * 20) \div 5)

\* File names are kept as their parts: the '_'-separated stem, the radius in
\* km and the optional feature hash; a URL adds the mount point.
\* base_name = f"preview_{city_slug}_{request.theme}_{job_id}"
BaseName(city, theme, job_id) == <<"preview", CitySlug(city), theme, job_id>>
\* job["base_name"].rsplit('_', 1)[0]: the job identifier has no '_', so the
\* split drops exactly the last part
RSplitLast(stem) == SubSeq(stem, 1, Len(stem) - 1)
Url(dir, stem, km, hash) ==
  [dir |-> dir, stem |-> stem, km |-> km, hash |-> hash]
\* f"/previews/{base_name}_{radius//1000}km.png"
MainUrl(base_name, radius) ==
  Url("/previews/", base_name, Some(radius \div 1000), None)
\* f"/previews/{base_name}_{request.theme}_{current_radius//1000}km.png"
ThemeUrl(base_name, theme, radius) ==
  Url("/previews/", RSplitLast(base_name) \o <<theme>>,
      Some(radius \div 1000), None)
\* f"/previews/{job['base_name']}_{current_radius//1000}km_{feature_hash}.png"
FeaturesUrl(base_name, radius, features) ==
  Url("/previews/", base_name, Some(radius \div 1000),
      Some(FeatureHash(features)))
\* f"/posters/{filename}"
PosterUrl(filename) == Url("/posters/", filename, None, None)

\* fetch_graph_fast: the graph, or None when osmnx raises
GraphResults(radius) == {None, Some(GraphFor(radius))}
\* fetch_water_fast / fetch_parks_fast: None beyond 15 km or on an
\* exception, the (possibly empty) GeoDataFrame otherwise. The runs explored
\* let the water source fail for the initial radius and let the other
\* requests be answered.
FeatureResults(name, radius, dist) ==
  IF dist > 15000 THEN {None}
  ELSE IF name = "water" /\ radius = INITIAL_RADIUS
  THEN {None, Some(Gdf(name, radius))}
  ELSE {Some(Gdf(name, radius))}

\* a call submitted to the ThreadPoolExecutor, as the awaiting task sees it
Idle == [st |-> "idle", result |-> None]
Running == [st |-> "running", result |-> None]
Done(res) == [st |-> "done", result |-> res]
Raised == [st |-> "raised", result |-> None]
\* a test that takes a call still in the pool for a finished one
\* a done() that is false for a call that raised
IsDoneNotRaised(f) == f.st = "done"
IsDoneOrRunning(f) == f.st \in {"done", "raised", "running"}
IsDone(f) == f.st \in {"done", "raised"}

FinalDistances == {3000}
FetchKeys == ALL_RADIUSES \cup FinalDistances
\* every value a pool call can hand back
GraphValues == UNION {GraphResults(r) : r \in FetchKeys}
FeatureValues ==
  {None} \cup {Some(Gdf(n, r)) : n \in {"water", "parks"}, r \in FetchKeys}

\* one Radius Slot as start_preview creates it
NewSlot(status) ==
  [status |-> status, graph_drive |-> None, graph_all |-> None,
   water |-> None, parks |-> None, preview_url |-> None,
   compensated_dist |-> None]

\* the requests the endpoints are driven with
PreviewRequests ==
  [city : Cities, country : {"France"}, theme : RequestThemes,
   width : {12}, height : {16}]
FinalFeatureSets ==
  {DefaultFeatures,
   [DefaultFeatures EXCEPT !.water = FALSE, !.roads_paths = FALSE],
   [DefaultFeatures EXCEPT !.water = FALSE, !.parks = FALSE]}
PosterRequests ==
  [city : Cities, country : {"France"}, theme : RequestThemes,
   width : {12}, height : {16}, distance : FinalDistances,
   features : FinalFeatureSets]

\* ------------------------------------------------------------------------
\* State
\* ------------------------------------------------------------------------

VARIABLES
  jobs,            \* the registry: job_id -> job record
  cancelled_jobs,  \* the set of cancelled job identifiers
  tasks,           \* job_id -> the job's pipeline task (its locals and pc)
  widen,           \* job_id -> the job's fetch_other_radiuses_background task
  handlers,        \* switch_theme / toggle_features calls awaiting a render
  fetch_count,     \* job_id -> distance -> fetch_graph_fast calls submitted
  next_sweep,      \* when the sweeper's asyncio.sleep ends
  now,             \* time.time(), in seconds since the server started
  reply,           \* the HTTP response the step just taken sent, if any
  scope            \* what a run covers: whether the responses are kept in
                   \* `reply`, and how many re-renders may be in flight

\* the server's own state
svars ==
  <<jobs, cancelled_jobs, tasks, widen, handlers, fetch_count, next_sweep,
    now>>
vars == <<svars, reply, scope>>

\* An HTTP response: the status code, the "status" of a JSON body or the
\* kind of an HTTPException's detail, and the other keys of the body.
Reply(op, code, status) ==
  [op |-> op, code |-> code, status |-> status, job_id |-> None,
   preview_url |-> None, radius |-> None, theme |-> None,
   features |-> None, snapshot |-> None]
\* a step of a background task sends no response
NoReply == Reply("none", 0, "")
\* raise HTTPException(status_code=code, detail=...)
HttpError(op, code, detail) == Reply(op, code, detail)
\* The step answers r. A run that states what the registry holds does not
\* keep the responses; a run that states what the server answers does.
Send(r) ==
  /\ reply' = IF scope.recording THEN r ELSE NoReply
  /\ UNCHANGED scope

Init ==
  /\ jobs = << >>
  /\ cancelled_jobs = {}
  /\ tasks = << >>
  /\ widen = << >>
  /\ handlers = {}
  /\ fetch_count = << >>
  /\ next_sweep = CLEANUP_INTERVAL_SECONDS
  /\ now = 0
  /\ reply = NoReply
  /\ scope = [recording |-> FALSE, inflight |-> MaxInflight,
              redraw |-> FALSE, pool |-> IdPool]

\* the same server, its responses kept
ApiInit ==
  /\ jobs = << >>
  /\ cancelled_jobs = {}
  /\ tasks = << >>
  /\ widen = << >>
  /\ handlers = {}
  /\ fetch_count = << >>
  /\ next_sweep = CLEANUP_INTERVAL_SECONDS
  /\ now = 0
  /\ reply = NoReply
  /\ scope = [recording |-> TRUE, inflight |-> MaxInflight,
              redraw |-> FALSE, pool |-> IdPool]

\* an assignment that takes effect only on a key that is already there
PutExisting(f, k, v) == [x \in DOMAIN f |-> IF x = k THEN v ELSE f[x]]

\* f with key k set to v (a dict assignment, adding the key when absent)
Put(f, k, v) == [x \in DOMAIN f \cup {k} |-> IF x = k THEN v ELSE f[x]]
\* f without key k (del f[k])
Del(f, k) == [x \in DOMAIN f \ {k} |-> f[x]]

\* a task as asyncio.create_task leaves it; `born` is when it was created
NewTask(kind, req, born) ==
  [kind |-> kind, pc |-> "created", req |-> req, born |-> born, t0 |-> 0,
   all_task |-> Idle, water_task |-> Idle, parks_task |-> Idle,
   render_task |-> Idle]

\* ------------------------------------------------------------------------
\* Creating a preview job: start_preview up to its return
\* ------------------------------------------------------------------------

\* the same record with the 15 km slot created 'pending'
NewPreviewJobUnlocked(job_id, req) ==
  [kind |-> "preview",
   status |-> "starting", step |-> 0, total |-> 4,
   message |-> <<"Finding your location...">>, percent |-> 0,
   preview_url |-> None, poster_url |-> None, filename |-> None,
   error |-> None, created_at |-> Some(now), coords |-> None,
   base_name |-> BaseName(req.city, req.theme, job_id),
   theme_name |-> Some(req.theme),
   radiuses |-> [r \in ALL_RADIUSES |->
                   IF r = 20000 THEN NewSlot("locked")
                   ELSE NewSlot("pending")],
   current_radius |-> Some(INITIAL_RADIUS),
   features |-> Some(DefaultFeatures),
   settings |-> Some([city |-> req.city, country |-> req.country,
                      theme |-> req.theme, distance |-> None,
                      width |-> req.width, height |-> req.height])]

NewPreviewJob(job_id, req) ==
  [kind |-> "preview",
   status |-> "starting", step |-> 0, total |-> 4,
   message |-> <<"Finding your location...">>, percent |-> 0,
   preview_url |-> None, poster_url |-> None, filename |-> None,
   error |-> None, created_at |-> Some(now), coords |-> None,
   base_name |-> BaseName(req.city, req.theme, job_id),
   theme_name |-> Some(req.theme),
   radiuses |-> [r \in ALL_RADIUSES |->
                   IF r \in LOCKED_RADIUSES THEN NewSlot("locked")
                   ELSE NewSlot("pending")],
   current_radius |-> Some(INITIAL_RADIUS),
   features |-> Some(DefaultFeatures),
   settings |-> Some([city |-> req.city, country |-> req.country,
                      theme |-> req.theme, distance |-> None,
                      width |-> req.width, height |-> req.height])]

\* every task and call started for an identifier has returned
Quiet(id) ==
  /\ id \in DOMAIN tasks => tasks[id].pc \in {"done", "crashed"}
  /\ id \in DOMAIN widen => widen[id].pc \in {"done", "crashed"}
  /\ \A h \in handlers : h.id # id

\* str(uuid.uuid4())[:8], 32 random bits, used as drawn: an identifier this
\* run has not drawn before or, where the scope lets a draw repeat, one drawn
\* before whose tasks have returned
FreshIds ==
  {id \in scope.pool : id \in DOMAIN tasks => (scope.redraw /\ Quiet(id))}

\* the answer of a start_preview that does not look at the theme
start_preview_reply_unchecked(req, job_id) ==
  [Reply("start_preview", 200, "started") EXCEPT !.job_id = Some(job_id)]

\* what POST /api/preview/start answers: lines 519-521 and 741
start_preview_reply(req, job_id) ==
  IF req.theme \notin AvailableThemes
  THEN HttpError("start_preview", 400, "Theme not found")
  ELSE [Reply("start_preview", 200, "started") EXCEPT
          !.job_id = Some(job_id)]

start_preview(req, job_id) ==
  /\ job_id \in FreshIds
  /\ Send(start_preview_reply(req, job_id))
  /\ IF start_preview_reply(req, job_id).code # 200
     THEN UNCHANGED svars   \* HTTPException(400), nothing created
     ELSE /\ jobs' = Put(jobs, job_id, NewPreviewJob(job_id, req))
          /\ tasks' = Put(tasks, job_id, NewTask("preview", req, now))
          /\ fetch_count' = Put(fetch_count, job_id, [k \in FetchKeys |-> 0])
          /\ UNCHANGED <<cancelled_jobs, widen, handlers, now, next_sweep>>

\* ------------------------------------------------------------------------
\* run_progressive_generation, one action per run between suspensions
\* ------------------------------------------------------------------------

\* jobs[job_id] is gone (evicted): the statement raises KeyError, the
\* `except Exception` handler raises it again, and the task ends with it
TaskCrash(j) ==
  /\ tasks' = [tasks EXCEPT ![j] =
                 [NewTask(@.kind, @.req, @.born) EXCEPT !.pc = "crashed"]]
  /\ UNCHANGED <<jobs, cancelled_jobs, widen, handlers, fetch_count, now,
                 next_sweep>>

\* the distance a task fetches and renders: the radius of its stage (the
\* requested distance for a final poster) compensated for the aspect ratio;
\* the preview's width and height are the request's over 1.5, the same ratio
TaskRadius(t) ==
  IF t.kind = "preview" THEN INITIAL_RADIUS
  ELSE IF t.kind = "widen" THEN WidenRadius ELSE t.req.distance
TaskDist(t) == CompensatedDist(TaskRadius(t), t.req.width, t.req.height)

\* the task returns; its locals are dropped with its frame
TaskDone(t) == [NewTask(t.kind, t.req, t.born) EXCEPT !.pc = "done"]

\* `if job_id in cancelled_jobs: return`, else suspend in asyncio.sleep
LoopOrReturn(t, j, pc) ==
  IF j \in cancelled_jobs THEN TaskDone(t) ELSE [t EXCEPT !.pc = pc]

\* lines 569-619: from the start of the task to the first sleep
run_progressive_start(j, located) ==
  /\ Send(NoReply)
  /\ j \in DOMAIN tasks
  /\ tasks[j].kind = "preview"
  /\ tasks[j].pc = "created"
  /\ IF j \notin DOMAIN jobs THEN TaskCrash(j)
     ELSE LET req == tasks[j].req
              job1 == [jobs[j] EXCEPT !.status = "running", !.step = 1,
                         !.message = <<"Finding your location...">>,
                         !.percent = 5]
          IN IF ~located
             THEN \* get_coordinates raised ValueError
                  /\ jobs' = [jobs EXCEPT ![j] =
                                [job1 EXCEPT !.status = "error",
                                   !.error = Some("ValueError")]]
                  /\ tasks' = [tasks EXCEPT ![j] = TaskDone(@)]
                  /\ UNCHANGED <<cancelled_jobs, widen, handlers,
                                 fetch_count, now, next_sweep>>
             ELSE /\ jobs' = [jobs EXCEPT ![j] =
                                [job1 EXCEPT
                                   !.coords = Some(CoordsOf(req.city)),
                                   !.radiuses[INITIAL_RADIUS].status =
                                      "loading",
                                   !.step = 2,
                                   !.message = <<"Downloading street data...">>,
                                   !.percent = 15]]
                  /\ fetch_count' =
                       [fetch_count EXCEPT ![j][INITIAL_RADIUS] = @ + 1]
                  /\ tasks' = [tasks EXCEPT ![j] =
                                 LoopOrReturn([@ EXCEPT !.all_task = Running,
                                                        !.t0 = now],
                                              j, "streets")]
                  /\ UNCHANGED <<cancelled_jobs, widen, handlers, now,
                                 next_sweep>>

\* the pool finishes fetch_graph_fast for the initial radius
streets_fetched(j, res) ==
  /\ Send(NoReply)
  /\ j \in DOMAIN tasks
  /\ tasks[j].kind = "preview"
  /\ tasks[j].pc = "streets"
  /\ tasks[j].all_task.st = "running"
  /\ res \in GraphResults(INITIAL_RADIUS)
  /\ tasks' = [tasks EXCEPT ![j].all_task = Done(res)]
  /\ UNCHANGED <<jobs, cancelled_jobs, widen, handlers, fetch_count, now,
                 next_sweep>>

\* lines 620-649: waking from the sleep of the street loop
streets_wake(j) ==
  /\ Send(NoReply)
  /\ j \in DOMAIN tasks
  /\ tasks[j].kind = "preview"
  /\ tasks[j].pc = "streets"
  /\ IF j \notin DOMAIN jobs THEN TaskCrash(j)
     ELSE LET t == tasks[j]
              elapsed == now - t.t0
              job1 == [jobs[j] EXCEPT
                         !.percent = StreetProgress(elapsed),
                         !.message = <<"Loading streets...", elapsed>>]
          IN /\ UNCHANGED <<cancelled_jobs, widen, handlers, fetch_count,
                            now, next_sweep>>
             /\ IF ~IsDone(t.all_task)
                THEN /\ jobs' = [jobs EXCEPT ![j] = job1]
                     /\ tasks' = [tasks EXCEPT ![j] =
                                    LoopOrReturn(t, j, "streets")]
                ELSE IF IsNone(t.all_task.result)
                THEN /\ jobs' = [jobs EXCEPT ![j] =
                                   [job1 EXCEPT !.status = "error",
                                      !.error =
                                        Some("Failed to load street data")]]
                     /\ tasks' = [tasks EXCEPT ![j] = TaskDone(t)]
                ELSE /\ jobs' = [jobs EXCEPT ![j] =
                                   [job1 EXCEPT !.step = 3,
                                      !.message = <<"Adding water & parks...">>,
                                      !.percent = 45]]
                     /\ tasks' = [tasks EXCEPT ![j] =
                                    LoopOrReturn(
                                      [t EXCEPT !.water_task = Running,
                                                !.parks_task = Running,
                                                !.t0 = now],
                                      j, "features")]

\* the pool finishes fetch_water_fast for the initial radius
water_fetched(j, res) ==
  /\ Send(NoReply)
  /\ j \in DOMAIN tasks
  /\ tasks[j].kind = "preview"
  /\ tasks[j].pc = "features"
  /\ tasks[j].water_task.st = "running"
  /\ res \in FeatureResults("water", INITIAL_RADIUS, TaskDist(tasks[j]))
  /\ tasks' = [tasks EXCEPT ![j].water_task = Done(res)]
  /\ UNCHANGED <<jobs, cancelled_jobs, widen, handlers, fetch_count, now,
                 next_sweep>>

\* the pool finishes fetch_parks_fast for the initial radius
parks_fetched(j, res) ==
  /\ Send(NoReply)
  /\ j \in DOMAIN tasks
  /\ tasks[j].kind = "preview"
  /\ tasks[j].pc = "features"
  /\ tasks[j].parks_task.st = "running"
  /\ res \in FeatureResults("parks", INITIAL_RADIUS, TaskDist(tasks[j]))
  /\ tasks' = [tasks EXCEPT ![j].parks_task = Done(res)]
  /\ UNCHANGED <<jobs, cancelled_jobs, widen, handlers, fetch_count, now,
                 next_sweep>>

\* lines 650-689: waking from the sleep of the water & parks loop
features_wake(j) ==
  /\ Send(NoReply)
  /\ j \in DOMAIN tasks
  /\ tasks[j].kind = "preview"
  /\ tasks[j].pc = "features"
  /\ IF j \notin DOMAIN jobs THEN TaskCrash(j)
     ELSE LET t == tasks[j]
              req == t.req
              elapsed == now - t.t0
              dist == TaskDist(t)
              job1 == [jobs[j] EXCEPT !.percent = FeaturesProgress(elapsed)]
          IN /\ UNCHANGED <<cancelled_jobs, widen, handlers, fetch_count,
                            now, next_sweep>>
             /\ IF ~(IsDone(t.water_task) /\ IsDone(t.parks_task))
                THEN /\ jobs' = [jobs EXCEPT ![j] = job1]
                     /\ tasks' = [tasks EXCEPT ![j] =
                                    LoopOrReturn(t, j, "features")]
                ELSE /\ jobs' = [jobs EXCEPT ![j] =
                                   [job1 EXCEPT
                                      !.radiuses[INITIAL_RADIUS].graph_all =
                                         t.all_task.result,
                                      !.radiuses[INITIAL_RADIUS].water =
                                         t.water_task.result,
                                      !.radiuses[INITIAL_RADIUS].parks =
                                         t.parks_task.result,
                                      !.radiuses[INITIAL_RADIUS]
                                         .compensated_dist = Some(dist),
                                      !.step = 4,
                                      !.message = <<"Composing your map...">>,
                                      !.percent = 75]]
                     /\ tasks' = [tasks EXCEPT ![j] =
                                    LoopOrReturn(
                                      [t EXCEPT !.render_task = Running,
                                                !.t0 = now],
                                      j, "render")]

\* the pool finishes render_full_poster for the initial radius: it returns
\* True or raises
rendered(j, ok) ==
  /\ Send(NoReply)
  /\ j \in DOMAIN tasks
  /\ tasks[j].kind = "preview"
  /\ tasks[j].pc = "render"
  /\ tasks[j].render_task.st = "running"
  /\ tasks' = [tasks EXCEPT ![j].render_task =
                 IF ok THEN Done(None) ELSE Raised]
  /\ UNCHANGED <<jobs, cancelled_jobs, widen, handlers, fetch_count, now,
                 next_sweep>>

\* a slot given its preview but not marked ready
ReadySlotUrlOnly(slot, url) == [slot EXCEPT !.preview_url = Some(url)]

\* a slot marked ready without its preview
ReadySlotNoUrl(slot, url) == [slot EXCEPT !.status = "ready"]

\* lines 700-703 and 801-804: the slot is marked ready with its preview
ReadySlot(slot, url) ==
  [slot EXCEPT !.status = "ready", !.preview_url = Some(url)]

\* the same update leaving the job's status as it is
CompleteUpdateKeepingStatus(job, req, url) ==
  [job EXCEPT !.step = 4, !.total = 4,
     !.message = <<"Done!">>, !.percent = 100,
     !.preview_url = Some(url),
     !.current_radius = Some(INITIAL_RADIUS),
     !.settings = Some([city |-> req.city, country |-> req.country,
                        theme |-> req.theme,
                        distance |-> Some(INITIAL_RADIUS),
                        width |-> req.width, height |-> req.height])]

\* the same update with the two dimensions of the request exchanged
CompleteUpdateSwapped(job, req, url) ==
  [job EXCEPT !.status = "complete", !.step = 4, !.total = 4,
     !.message = <<"Done!">>, !.percent = 100,
     !.preview_url = Some(url),
     !.current_radius = Some(INITIAL_RADIUS),
     !.settings = Some([city |-> req.city, country |-> req.country,
                        theme |-> req.theme,
                        distance |-> Some(INITIAL_RADIUS),
                        width |-> req.height, height |-> req.width])]

\* the job update of lines 706-723
CompleteUpdate(job, req, url) ==
  [job EXCEPT !.status = "complete", !.step = 4, !.total = 4,
     !.message = <<"Done!">>, !.percent = 100,
     !.preview_url = Some(url),
     !.current_radius = Some(INITIAL_RADIUS),
     !.settings = Some([city |-> req.city, country |-> req.country,
                        theme |-> req.theme,
                        distance |-> Some(INITIAL_RADIUS),
                        width |-> req.width, height |-> req.height])]

\* lines 690-738: waking from the sleep of the render loop
render_wake(j) ==
  /\ Send(NoReply)
  /\ j \in DOMAIN tasks
  /\ tasks[j].kind = "preview"
  /\ tasks[j].pc = "render"
  /\ IF j \notin DOMAIN jobs THEN TaskCrash(j)
     ELSE LET t == tasks[j]
              elapsed == now - t.t0
              job1 == [jobs[j] EXCEPT !.percent = RenderProgress(elapsed)]
              url == MainUrl(job1.base_name, INITIAL_RADIUS)
          IN /\ UNCHANGED <<cancelled_jobs, handlers, fetch_count, now,
                            next_sweep>>
             /\ IF ~IsDone(t.render_task)
                THEN /\ jobs' = [jobs EXCEPT ![j] = job1]
                     /\ tasks' = [tasks EXCEPT ![j] =
                                    LoopOrReturn(t, j, "render")]
                     /\ UNCHANGED widen
                ELSE IF t.render_task.st = "raised"
                THEN \* `await render_task` raises into `except Exception`
                     /\ jobs' = [jobs EXCEPT ![j] =
                                   [job1 EXCEPT !.status = "error",
                                      !.error = Some("RenderError")]]
                     /\ tasks' = [tasks EXCEPT ![j] = TaskDone(t)]
                     /\ UNCHANGED widen
                ELSE /\ jobs' = [jobs EXCEPT ![j] =
                                   CompleteUpdate(
                                     [job1 EXCEPT
                                        !.radiuses[INITIAL_RADIUS] =
                                           ReadySlot(@, url)],
                                     t.req, url)]
                     /\ tasks' = [tasks EXCEPT ![j] = TaskDone(t)]
                     /\ widen' = Put(widen, j, NewTask("widen", t.req, t.born))

\* ------------------------------------------------------------------------
\* The clock and the client's cancel
\* ------------------------------------------------------------------------

\* Time passes. A task that asyncio.create_task has just queued runs its
\* first step in the next iteration of the event loop, before the clock of
\* the model (far coarser) advances.
Tick ==
  /\ Send(NoReply)
  /\ now + TimeUnit <= MaxTime
  /\ \A j \in DOMAIN tasks : tasks[j].pc # "created"
  /\ \A j \in DOMAIN widen : widen[j].pc # "created"
  /\ now' = now + TimeUnit
  /\ UNCHANGED <<jobs, cancelled_jobs, tasks, widen, handlers, fetch_count,
                 next_sweep>>

\* what POST /api/cancel/{job_id} answers
cancel_job_reply(job_id) ==
  IF job_id \in DOMAIN jobs THEN Reply("cancel_job", 200, "cancelled")
  ELSE Reply("cancel_job", 200, "not_found")

\* a cancel that also drops what the job's slots hold
cancel_job_dropping_slots(job_id) ==
  /\ Send(cancel_job_reply(job_id))
  /\ IF job_id \in DOMAIN jobs
     THEN /\ cancelled_jobs' = cancelled_jobs \cup {job_id}
          /\ jobs' = [jobs EXCEPT
                        ![job_id].status = "cancelled",
                        ![job_id].message = <<"Cancelled">>,
                        ![job_id].radiuses =
                           IF jobs[job_id].kind = "preview"
                           THEN [r \in DOMAIN @ |->
                                   IF @[r].status = "locked" THEN @[r]
                                   ELSE NewSlot("pending")]
                           ELSE @]
     ELSE UNCHANGED <<jobs, cancelled_jobs>>
  /\ UNCHANGED <<tasks, widen, handlers, fetch_count, now, next_sweep>>

\* POST /api/cancel/{job_id}
cancel_job(job_id) ==
  /\ Send(cancel_job_reply(job_id))
  /\ IF job_id \in DOMAIN jobs
     THEN /\ cancelled_jobs' = cancelled_jobs \cup {job_id}
          /\ jobs' = [jobs EXCEPT ![job_id].status = "cancelled",
                                  ![job_id].message = <<"Cancelled">>]
     ELSE UNCHANGED <<jobs, cancelled_jobs>>                     \* 404
  /\ UNCHANGED <<tasks, widen, handlers, fetch_count, now, next_sweep>>

\* a get_progress that reads the record without looking for the key first,
\* the way jobs.get(job_id, {}) would
get_progress_unchecked(job_id) ==
  LET job == IF job_id \in DOMAIN jobs THEN jobs[job_id]
             ELSE [status |-> "", step |-> 0, total |-> 0,
                   message |-> << >>, percent |-> 0, preview_url |-> None,
                   poster_url |-> None, filename |-> None, error |-> None,
                   current_radius |-> None, settings |-> None,
                   coords |-> None]
  IN [status |-> job.status, step |-> job.step, total |-> job.total,
      message |-> job.message, percent |-> job.percent,
      preview_url |-> job.preview_url, poster_url |-> job.poster_url,
      filename |-> job.filename, error |-> job.error,
      current_radius |-> job.current_radius,
      settings |-> job.settings, coords |-> job.coords]

\* GET /api/progress/{job_id}: the snapshot returned, nothing is changed
get_progress(job_id) ==
  IF job_id \notin DOMAIN jobs THEN [status |-> "not_found"]
  ELSE LET job == jobs[job_id]
       IN [status |-> job.status, step |-> job.step, total |-> job.total,
           message |-> job.message, percent |-> job.percent,
           preview_url |-> job.preview_url, poster_url |-> job.poster_url,
           filename |-> job.filename, error |-> job.error,
           current_radius |-> job.current_radius,
           settings |-> job.settings, coords |-> job.coords]

\* a client polls: the snapshot is the response, the server's state is as
\* it was
progress_request(job_id) ==
  /\ Send([Reply("get_progress", 200, get_progress(job_id).status)
             EXCEPT !.snapshot = Some(get_progress(job_id))])
  /\ UNCHANGED svars

\* ------------------------------------------------------------------------
\* fetch_other_radiuses_background, one action per run between awaits.
\* Its `except Exception` swallows the KeyError of an evicted job.
\* ------------------------------------------------------------------------

\* lines 752-769: up to the await of the street fetch
widen_start(j) ==
  /\ Send(NoReply)
  /\ j \in DOMAIN widen
  /\ widen[j].pc = "created"
  /\ IF j \notin DOMAIN jobs \/ j \in cancelled_jobs
     THEN /\ widen' = [widen EXCEPT ![j] = TaskDone(@)]
          /\ UNCHANGED <<jobs, fetch_count>>
     ELSE /\ jobs' = [jobs EXCEPT
                        ![j].radiuses[WidenRadius].status = "loading"]
          /\ fetch_count' = [fetch_count EXCEPT ![j][WidenRadius] = @ + 1]
          /\ widen' = [widen EXCEPT ![j].pc = "fetch",
                                    ![j].all_task = Running]
  /\ UNCHANGED <<cancelled_jobs, tasks, handlers, now, next_sweep>>

\* the same step starting the radius over when the fetch failed
widen_after_fetch_retrying(j, res) ==
  /\ Send(NoReply)
  /\ j \in DOMAIN widen
  /\ widen[j].pc = "fetch"
  /\ res \in GraphResults(WidenRadius)
  /\ IF IsNone(res)
     THEN /\ jobs' = IF j \in DOMAIN jobs
                     THEN [jobs EXCEPT
                             ![j].radiuses[WidenRadius].status = "error"]
                     ELSE jobs
          /\ widen' = [widen EXCEPT ![j].pc = "created",
                                    ![j].all_task = Idle]
     ELSE /\ widen' = [widen EXCEPT ![j].pc = "water",
                                    ![j].all_task = Done(res),
                                    ![j].water_task = Running]
          /\ UNCHANGED jobs
  /\ UNCHANGED <<cancelled_jobs, tasks, handlers, fetch_count, now,
                 next_sweep>>

\* the same step failing the job as well as the slot when the fetch failed
widen_after_fetch_failing_job(j, res) ==
  /\ Send(NoReply)
  /\ j \in DOMAIN widen
  /\ widen[j].pc = "fetch"
  /\ res \in GraphResults(WidenRadius)
  /\ IF IsNone(res)
     THEN /\ jobs' = IF j \in DOMAIN jobs
                     THEN [jobs EXCEPT
                             ![j].radiuses[WidenRadius].status = "error",
                             ![j].status = "error"]
                     ELSE jobs
          /\ widen' = [widen EXCEPT ![j] =
                         TaskDone([@ EXCEPT !.all_task = Done(res)])]
     ELSE /\ widen' = [widen EXCEPT ![j].pc = "water",
                                    ![j].all_task = Done(res),
                                    ![j].water_task = Running]
          /\ UNCHANGED jobs
  /\ UNCHANGED <<cancelled_jobs, tasks, handlers, fetch_count, now,
                 next_sweep>>

\* lines 767-777: the street fetch returns
widen_after_fetch(j, res) ==
  /\ Send(NoReply)
  /\ j \in DOMAIN widen
  /\ widen[j].pc = "fetch"
  /\ res \in GraphResults(WidenRadius)
  /\ IF IsNone(res)
     THEN /\ jobs' = IF j \in DOMAIN jobs
                     THEN [jobs EXCEPT
                             ![j].radiuses[WidenRadius].status = "error"]
                     ELSE jobs
          /\ widen' = [widen EXCEPT ![j] =
                         TaskDone([@ EXCEPT !.all_task = Done(res)])]
     ELSE /\ widen' = [widen EXCEPT ![j].pc = "water",
                                    ![j].all_task = Done(res),
                                    ![j].water_task = Running]
          /\ UNCHANGED jobs
  /\ UNCHANGED <<cancelled_jobs, tasks, handlers, fetch_count, now,
                 next_sweep>>

\* line 777-778: the water fetch returns
widen_after_water(j, res) ==
  /\ Send(NoReply)
  /\ j \in DOMAIN widen
  /\ widen[j].pc = "water"
  /\ res \in FeatureResults("water", WidenRadius, TaskDist(widen[j]))
  /\ widen' = [widen EXCEPT ![j].pc = "parks",
                            ![j].water_task = Done(res),
                            ![j].parks_task = Running]
  /\ UNCHANGED <<jobs, cancelled_jobs, tasks, handlers, fetch_count, now,
                 next_sweep>>

\* lines 778-798: the parks fetch returns
widen_after_parks(j, res) ==
  /\ Send(NoReply)
  /\ j \in DOMAIN widen
  /\ widen[j].pc = "parks"
  /\ res \in FeatureResults("parks", WidenRadius, TaskDist(widen[j]))
  /\ LET w == widen[j]
         dist == TaskDist(w)
     IN IF j \notin DOMAIN jobs
        THEN /\ widen' = [widen EXCEPT ![j] =
                            TaskDone([@ EXCEPT !.parks_task = Done(res)])]
             /\ UNCHANGED jobs
        ELSE /\ jobs' = [jobs EXCEPT
                           ![j].radiuses[WidenRadius].graph_all =
                              w.all_task.result,
                           ![j].radiuses[WidenRadius].water =
                              w.water_task.result,
                           ![j].radiuses[WidenRadius].parks = res,
                           ![j].radiuses[WidenRadius].compensated_dist =
                              Some(dist)]
             /\ widen' = [widen EXCEPT ![j].pc = "render",
                                       ![j].parks_task = Done(res),
                                       ![j].render_task = Running]
  /\ UNCHANGED <<cancelled_jobs, tasks, handlers, fetch_count, now,
                 next_sweep>>

\* lines 792-813: the render returns or raises
widen_after_render(j, ok) ==
  /\ Send(NoReply)
  /\ j \in DOMAIN widen
  /\ widen[j].pc = "render"
  /\ widen' = [widen EXCEPT ![j] =
                 TaskDone([@ EXCEPT !.render_task =
                                       IF ok THEN Done(None) ELSE Raised])]
  /\ jobs' = IF ok /\ j \in DOMAIN jobs
             THEN [jobs EXCEPT
                     ![j].radiuses[WidenRadius] =
                        ReadySlot(@, MainUrl(jobs[j].base_name, WidenRadius))]
             ELSE jobs
  /\ UNCHANGED <<cancelled_jobs, tasks, handlers, fetch_count, now,
                 next_sweep>>

\* ------------------------------------------------------------------------
\* start_final_generation and its task run_generation
\* ------------------------------------------------------------------------

\* re.sub(r'[\\/:*?"<>|]', '-',
\*        request.city.lower().replace(" ", "_").replace(",", ""))
FinalSlug(city) ==
  CASE city = "Paris" -> "paris"
    [] city = "New York" -> "new_york"
    [] OTHER -> city

\* filename = f"{city_slug}_{request.theme}_{job_id}.png"
FinalFilename(req, job_id) == <<FinalSlug(req.city), req.theme, job_id>>

\* the record of lines 1133-1142; the keys it does not have are None, the
\* way dict.get reads them
NewFinalJob(job_id, req) ==
  [kind |-> "final",
   status |-> "starting", step |-> 0, total |-> 4,
   message |-> <<"Starting...">>, percent |-> 0,
   preview_url |-> None, poster_url |-> None,
   filename |-> Some(FinalFilename(req, job_id)),
   error |-> None, created_at |-> None, coords |-> None,
   base_name |-> << >>, theme_name |-> None,
   radiuses |-> [r \in {} |-> NewSlot("pending")],
   current_radius |-> None, features |-> None, settings |-> None]

\* what POST /api/generate/start answers: lines 1126-1128 and 1241
start_final_generation_reply(req, job_id) ==
  IF req.theme \notin AvailableThemes
  THEN HttpError("start_final_generation", 400, "Theme not found")
  ELSE [Reply("start_final_generation", 200, "started") EXCEPT
          !.job_id = Some(job_id)]

start_final_generation(req, job_id) ==
  /\ job_id \in FreshIds
  /\ Send(start_final_generation_reply(req, job_id))
  /\ IF start_final_generation_reply(req, job_id).code # 200
     THEN UNCHANGED svars   \* HTTPException(400), nothing created
     ELSE /\ jobs' = Put(jobs, job_id, NewFinalJob(job_id, req))
          /\ tasks' = Put(tasks, job_id, NewTask("final", req, now))
          /\ fetch_count' = Put(fetch_count, job_id, [k \in FetchKeys |-> 0])
          /\ UNCHANGED <<cancelled_jobs, widen, handlers, now, next_sweep>>

\* lines 1206-1218: the step 4 update and the submission of the render
FinalToRender(job) ==
  [job EXCEPT !.step = 4, !.message = <<"Rendering...">>, !.percent = 75]

\* lines 1145-1181: up to the await of the street fetch
final_start(j, located) ==
  /\ Send(NoReply)
  /\ j \in DOMAIN tasks
  /\ tasks[j].kind = "final"
  /\ tasks[j].pc = "created"
  /\ IF j \notin DOMAIN jobs THEN TaskCrash(j)
     ELSE LET req == tasks[j].req
              job1 == [jobs[j] EXCEPT !.status = "running", !.step = 1,
                         !.message = <<"Finding location...">>,
                         !.percent = 5]
          IN IF ~located
             THEN /\ jobs' = [jobs EXCEPT ![j] =
                                [job1 EXCEPT !.status = "error",
                                   !.error = Some("ValueError")]]
                  /\ tasks' = [tasks EXCEPT ![j] = TaskDone(@)]
                  /\ UNCHANGED <<cancelled_jobs, widen, handlers,
                                 fetch_count, now, next_sweep>>
             ELSE /\ jobs' = [jobs EXCEPT ![j] =
                                [job1 EXCEPT !.step = 2,
                                   !.message = <<"Loading streets...">>,
                                   !.percent = 15]]
                  /\ fetch_count' =
                       [fetch_count EXCEPT ![j][req.distance] = @ + 1]
                  /\ tasks' = [tasks EXCEPT ![j].pc = "fetch",
                                            ![j].all_task = Running]
                  /\ UNCHANGED <<cancelled_jobs, widen, handlers, now,
                                 next_sweep>>

\* lines 1179-1218: the street fetch returns
final_after_fetch(j, res) ==
  /\ Send(NoReply)
  /\ j \in DOMAIN tasks
  /\ tasks[j].kind = "final"
  /\ tasks[j].pc = "fetch"
  /\ res \in GraphResults(TaskRadius(tasks[j]))
  /\ IF j \notin DOMAIN jobs THEN TaskCrash(j)
     ELSE LET t == [tasks[j] EXCEPT !.all_task = Done(res)]
              f == t.req.features
              job1 == [jobs[j] EXCEPT !.step = 3,
                         !.message = <<"Adding features...">>,
                         !.percent = 45]
          IN /\ UNCHANGED <<cancelled_jobs, widen, handlers, fetch_count,
                            now, next_sweep>>
             /\ IF IsNone(res)
                THEN /\ jobs' = [jobs EXCEPT ![j].status = "error",
                                   ![j].error =
                                      Some("Failed to load street data")]
                     /\ tasks' = [tasks EXCEPT ![j] = TaskDone(t)]
                ELSE IF f.water
                THEN /\ jobs' = [jobs EXCEPT ![j] = job1]
                     /\ tasks' = [tasks EXCEPT ![j] =
                                    [t EXCEPT !.pc = "water",
                                              !.water_task = Running]]
                ELSE IF f.parks
                THEN /\ jobs' = [jobs EXCEPT ![j] = job1]
                     /\ tasks' = [tasks EXCEPT ![j] =
                                    [t EXCEPT !.pc = "parks",
                                              !.parks_task = Running]]
                ELSE /\ jobs' = [jobs EXCEPT ![j] = FinalToRender(job1)]
                     /\ tasks' = [tasks EXCEPT ![j] =
                                    [t EXCEPT !.pc = "render",
                                              !.render_task = Running]]

\* lines 1200-1218: the water fetch returns
final_after_water(j, res) ==
  /\ Send(NoReply)
  /\ j \in DOMAIN tasks
  /\ tasks[j].kind = "final"
  /\ tasks[j].pc = "water"
  /\ res \in FeatureResults("water", TaskRadius(tasks[j]), TaskDist(tasks[j]))
  /\ LET t == [tasks[j] EXCEPT !.water_task = Done(res)]
     IN IF t.req.features.parks
        THEN /\ tasks' = [tasks EXCEPT ![j] =
                            [t EXCEPT !.pc = "parks", !.parks_task = Running]]
             /\ UNCHANGED jobs
        ELSE IF j \notin DOMAIN jobs THEN TaskCrash(j)
        ELSE /\ jobs' = [jobs EXCEPT ![j] = FinalToRender(@)]
             /\ tasks' = [tasks EXCEPT ![j] =
                            [t EXCEPT !.pc = "render",
                                      !.render_task = Running]]
  /\ UNCHANGED <<cancelled_jobs, widen, handlers, fetch_count, now,
                 next_sweep>>

\* lines 1202-1218: the parks fetch returns
final_after_parks(j, res) ==
  /\ Send(NoReply)
  /\ j \in DOMAIN tasks
  /\ tasks[j].kind = "final"
  /\ tasks[j].pc = "parks"
  /\ res \in FeatureResults("parks", TaskRadius(tasks[j]), TaskDist(tasks[j]))
  /\ IF j \notin DOMAIN jobs THEN TaskCrash(j)
     ELSE /\ jobs' = [jobs EXCEPT ![j] = FinalToRender(@)]
          /\ tasks' = [tasks EXCEPT ![j].pc = "render",
                                    ![j].parks_task = Done(res),
                                    ![j].render_task = Running]
          /\ UNCHANGED <<cancelled_jobs, widen, handlers, fetch_count, now,
                         next_sweep>>

\* the graph run_generation hands to the render: line 1188
FinalRenderGraph(t) == get_filtered_graph(t.all_task.result, t.req.features)

\* lines 1212-1238: the render returns or raises
final_after_render(j, ok) ==
  /\ Send(NoReply)
  /\ j \in DOMAIN tasks
  /\ tasks[j].kind = "final"
  /\ tasks[j].pc = "render"
  /\ IF j \notin DOMAIN jobs THEN TaskCrash(j)
     ELSE /\ jobs' = [jobs EXCEPT ![j] =
                        IF ok
                        THEN [@ EXCEPT !.status = "complete", !.step = 4,
                                !.total = 4, !.message = <<"Done!">>,
                                !.percent = 100,
                                !.poster_url =
                                   Some(PosterUrl(
                                          FinalFilename(tasks[j].req, j))),
                                !.filename =
                                   Some(FinalFilename(tasks[j].req, j))]
                        ELSE [@ EXCEPT !.status = "error",
                                !.error = Some("RenderError")]]
          /\ tasks' = [tasks EXCEPT ![j] =
                         TaskDone([@ EXCEPT !.render_task =
                                      IF ok THEN Done(None) ELSE Raised])]
          /\ UNCHANGED <<cancelled_jobs, widen, handlers, fetch_count, now,
                         next_sweep>>

\* ------------------------------------------------------------------------
\* Client endpoints on a preview job
\* ------------------------------------------------------------------------

\* the radii the client asks for: Field(ge=1000, le=20000)
SwitchRadii == {5000, 10000, 15000, 7000}

\* the checks of switch_radius without the one for a locked slot
switch_radius_reply_no_lock(job_id, radius) ==
  IF job_id \notin DOMAIN jobs
  THEN HttpError("switch_radius", 404, "Job not found")
  ELSE LET job == jobs[job_id]
       IN IF radius \notin DOMAIN job.radiuses
          THEN HttpError("switch_radius", 400, "not available")
          ELSE IF job.radiuses[radius].status \notin {"ready", "locked"}
          THEN HttpError("switch_radius", 400, "still loading")
          ELSE [Reply("switch_radius", 200, "ready") EXCEPT
                  !.preview_url = job.radiuses[radius].preview_url,
                  !.radius = Some(radius)]

\* what POST /api/preview/radius/{job_id} answers: the checks of lines
\* 919-940 in their order, then the body of lines 947-951
switch_radius_reply(job_id, radius) ==
  IF job_id \notin DOMAIN jobs
  THEN HttpError("switch_radius", 404, "Job not found")
  ELSE LET job == jobs[job_id]
       IN IF radius \notin DOMAIN job.radiuses
          THEN HttpError("switch_radius", 400, "not available")
          ELSE IF job.radiuses[radius].status = "locked"
          THEN HttpError("switch_radius", 403, "requires signup")
          ELSE IF job.radiuses[radius].status # "ready"
          THEN HttpError("switch_radius", 400, "still loading")
          ELSE IF IsNone(job.radiuses[radius].preview_url)
          THEN HttpError("switch_radius", 400, "No preview available")
          ELSE [Reply("switch_radius", 200, "ready") EXCEPT
                  !.preview_url = job.radiuses[radius].preview_url,
                  !.radius = Some(radius)]

\* POST /api/preview/radius/{job_id}; every HTTPException leaves the state
switch_radius(job_id, radius) ==
  /\ Send(switch_radius_reply(job_id, radius))
  /\ IF switch_radius_reply(job_id, radius).code # 200
     THEN UNCHANGED svars
     ELSE /\ jobs' = [jobs EXCEPT
                        ![job_id].current_radius = Some(radius),
                        ![job_id].preview_url =
                           jobs[job_id].radiuses[radius].preview_url,
                        ![job_id].settings =
                           Some([@[1] EXCEPT !.distance = Some(radius)])]
          /\ UNCHANGED <<cancelled_jobs, tasks, widen, handlers,
                         fetch_count, now, next_sweep>>

\* the same checks without the one on the slot's status
ReRenderReadyAnyStatus(job_id) ==
  /\ job_id \in DOMAIN jobs
  /\ jobs[job_id].kind = "preview"
  /\ ~IsNone(jobs[job_id].radiuses[jobs[job_id].current_radius[1]].graph_all)

\* the checks switch_theme and toggle_features share (lines 961-970 and
\* 1035-1043): the job exists, has slots, and its current slot is ready
\* with a cached graph
ReRenderReady(job_id) ==
  /\ job_id \in DOMAIN jobs
  /\ jobs[job_id].kind = "preview"     \* job["radiuses"] raises otherwise
  /\ LET rd == jobs[job_id].radiuses[jobs[job_id].current_radius[1]]
     IN rd.status = "ready" /\ ~IsNone(rd.graph_all)

\* a render handed to the pool by a client endpoint, with what the
\* endpoint keeps to finish: the slot it read and the file it writes
Handler(op, job_id, radius, theme, url, graph, water, parks, features) ==
  [op |-> op, id |-> job_id, radius |-> radius, theme |-> theme,
   url |-> url, graph |-> graph, water |-> water, parks |-> parks,
   features |-> features]

\* the checks of lines 961-970 and 1035-1043 as the client sees them
rerender_error(op, job_id) ==
  IF job_id \notin DOMAIN jobs THEN HttpError(op, 404, "Job not found")
  ELSE IF jobs[job_id].kind # "preview"
  THEN HttpError(op, 500, "KeyError")        \* job["radiuses"]
  ELSE IF ~ReRenderReady(job_id)
  THEN HttpError(op, 400, "Preview data not ready")
  ELSE NoReply

\* the graph switch_theme hands to the render: line 1000
ThemeRenderGraph(radius_data, features) == radius_data.graph_all

\* what POST /api/preview/theme/{job_id} answers before its render:
\* an error, or nothing yet
switch_theme_reply(job_id, theme) ==
  IF rerender_error("switch_theme", job_id) # NoReply
  THEN rerender_error("switch_theme", job_id)
  ELSE IF theme \notin AvailableThemes
  THEN HttpError("switch_theme", 400, "Theme not found")
  ELSE NoReply

\* POST /api/preview/theme/{job_id}, lines 961-1005: up to the await
switch_theme(job_id, theme) ==
  /\ Send(switch_theme_reply(job_id, theme))
  /\ IF switch_theme_reply(job_id, theme) # NoReply
     THEN UNCHANGED svars
     ELSE LET job == jobs[job_id]
              cr == job.current_radius[1]
              rd == job.radiuses[cr]
              f == job.features[1]
          IN /\ Cardinality(handlers) < scope.inflight
             /\ handlers' = handlers \cup
                  {Handler("theme", job_id, cr, theme,
                           ThemeUrl(job.base_name, theme, cr),
                           ThemeRenderGraph(rd, f),
                           IF f.water THEN rd.water ELSE None,
                           IF f.parks THEN rd.parks ELSE None,
                           None)}
             /\ UNCHANGED <<jobs, cancelled_jobs, tasks, widen, fetch_count,
                            now, next_sweep>>

\* the response of lines 1013-1017, or the 500 of a render that raised
switch_theme_done_reply(h, ok) ==
  IF ok
  THEN [Reply("switch_theme", 200, "ready") EXCEPT
          !.preview_url = Some(h.url), !.theme = Some(h.theme)]
  ELSE HttpError("switch_theme", 500, "Internal Server Error")

\* lines 1007-1017: the render returned (or raised: a 500, nothing written).
\* `job` and `radius_data` are the objects read before the await; once the
\* job is evicted they are no longer the registry's.
switch_theme_done(h, ok) ==
  /\ h \in handlers
  /\ h.op = "theme"
  /\ Send(switch_theme_done_reply(h, ok))
  /\ handlers' = handlers \ {h}
  /\ jobs' = IF ok /\ h.id \in DOMAIN jobs
             THEN [jobs EXCEPT
                     ![h.id].theme_name = Some(h.theme),
                     ![h.id].settings = Some([@[1] EXCEPT !.theme = h.theme]),
                     ![h.id].preview_url = Some(h.url),
                     ![h.id].radiuses[h.radius].preview_url = Some(h.url)]
             ELSE jobs
  /\ UNCHANGED <<cancelled_jobs, tasks, widen, fetch_count, now, next_sweep>>

\* FeatureToggleRequest: each flag None or a boolean
Flags == {"parks", "water", "roads_drive", "roads_paths", "roads_cycling"}
NoDelta == [k \in Flags |-> None]
ToggleDeltas ==
  {[NoDelta EXCEPT !["water"] = Some(FALSE)],
   [NoDelta EXCEPT !["roads_paths"] = Some(FALSE)],
   [NoDelta EXCEPT !["roads_drive"] = Some(FALSE),
                   !["roads_paths"] = Some(FALSE),
                   !["roads_cycling"] = Some(FALSE)]}

\* the same deltas and one that sets a flag back on
ToggleBackDeltas ==
  ToggleDeltas \cup {[NoDelta EXCEPT !["water"] = Some(TRUE)]}

\* a merge that assigns every flag of the request, absent ones as off
MergeFlagOverwrite(old, d) == IF IsNone(d) THEN FALSE ELSE d[1]

\* lines 1046-1056: a flag of the request that is not None replaces the
\* job's
MergeFlag(old, d) == IF IsNone(d) THEN old ELSE d[1]
MergeFeatures(features, delta) ==
  [parks |-> MergeFlag(features.parks, delta["parks"]),
   water |-> MergeFlag(features.water, delta["water"]),
   roads_drive |-> MergeFlag(features.roads_drive, delta["roads_drive"]),
   roads_paths |-> MergeFlag(features.roads_paths, delta["roads_paths"]),
   roads_cycling |->
     MergeFlag(features.roads_cycling, delta["roads_cycling"])]

\* the slot's cached graph after get_filtered_graph(graph_all, features)
CacheAfterFiltering(graph_all, features) ==
  IF IsNone(graph_all) THEN graph_all
  ELSE IF features.roads_drive /\ features.roads_paths
          /\ features.roads_cycling THEN graph_all
  ELSE IF IncludeTypes(features) = {} THEN graph_all
  ELSE Some(GraphAfterFilter(graph_all[1], IncludeTypes(features)))

\* POST /api/preview/features/{job_id}, lines 1035-1095: up to the await
toggle_features(job_id, delta) ==
  /\ Send(rerender_error("toggle_features", job_id))
  /\ IF rerender_error("toggle_features", job_id) # NoReply
     THEN UNCHANGED svars
     ELSE LET job == jobs[job_id]
              cr == job.current_radius[1]
              rd == job.radiuses[cr]
              f == MergeFeatures(job.features[1], delta)
          IN /\ Cardinality(handlers) < scope.inflight
             /\ jobs' = [jobs EXCEPT
                           ![job_id].features = Some(f),
                           ![job_id].radiuses[cr].graph_all =
                              CacheAfterFiltering(rd.graph_all, f)]
             /\ handlers' = handlers \cup
                  {Handler("features", job_id, cr, job.theme_name[1],
                           FeaturesUrl(job.base_name, cr, f),
                           get_filtered_graph(rd.graph_all, f),
                           IF f.water THEN rd.water ELSE None,
                           IF f.parks THEN rd.parks ELSE None,
                           Some(f))}
             /\ UNCHANGED <<cancelled_jobs, tasks, widen, fetch_count, now,
                            next_sweep>>

\* the response of lines 1102-1106, or the 500 of a render that raised.
\* `features` is the dict the job holds: the response shows it as it is
\* when the render returns.
toggle_features_done_reply(h, ok) ==
  IF ok
  THEN [Reply("toggle_features", 200, "ready") EXCEPT
          !.preview_url = Some(h.url),
          !.features = IF h.id \in DOMAIN jobs THEN jobs[h.id].features
                       ELSE h.features]
  ELSE HttpError("toggle_features", 500, "Internal Server Error")

\* lines 1097-1106: the render returned (or raised: a 500, nothing more
\* written)
toggle_features_done(h, ok) ==
  /\ h \in handlers
  /\ h.op = "features"
  /\ Send(toggle_features_done_reply(h, ok))
  /\ handlers' = handlers \ {h}
  /\ jobs' = IF ok /\ h.id \in DOMAIN jobs
             THEN [jobs EXCEPT
                     ![h.id].preview_url = Some(h.url),
                     ![h.id].radiuses[h.radius].preview_url = Some(h.url)]
             ELSE jobs
  /\ UNCHANGED <<cancelled_jobs, tasks, widen, fetch_count, now, next_sweep>>

\* ------------------------------------------------------------------------
\* The expiry sweeper: one pass of cleanup_old_jobs after its sleep
\* ------------------------------------------------------------------------

\* created_at = job_data.get("created_at", current_time)
CreatedAt(job, current_time) ==
  IF IsNone(job.created_at) THEN current_time ELSE job.created_at[1]

\* a sweep that also takes the jobs whose age equals the time-to-live
ExpiredJobsAtTtl(current_time) ==
  {j \in DOMAIN jobs :
     current_time - CreatedAt(jobs[j], current_time) >= JOB_EXPIRY_SECONDS}

\* lines 173-179
ExpiredJobs(current_time) ==
  {j \in DOMAIN jobs :
     current_time - CreatedAt(jobs[j], current_time) > JOB_EXPIRY_SECONDS}

\* a pass that deletes the expired jobs and leaves their cancellation flags
cleanup_old_jobs_keeping_flags ==
  /\ Send(NoReply)
  /\ now >= next_sweep
  /\ jobs' = [j \in DOMAIN jobs \ ExpiredJobs(now) |-> jobs[j]]
  /\ next_sweep' = now + CLEANUP_INTERVAL_SECONDS
  /\ UNCHANGED <<cancelled_jobs, tasks, widen, handlers, fetch_count, now>>

\* The pass runs once its sleep has ended and then sleeps again. The clock
\* of the model is coarser than the sleep, so a pass may be late, never early.
cleanup_old_jobs ==
  /\ Send(NoReply)
  /\ now >= next_sweep
  /\ jobs' = [j \in DOMAIN jobs \ ExpiredJobs(now) |-> jobs[j]]
  /\ cancelled_jobs' = cancelled_jobs \ ExpiredJobs(now)
  /\ next_sweep' = now + CLEANUP_INTERVAL_SECONDS
  /\ UNCHANGED <<tasks, widen, handlers, fetch_count, now>>

\* ------------------------------------------------------------------------
\* The system
\* ------------------------------------------------------------------------

\* The identifiers a client request can carry when it is served: a job's
\* identifier reaches the client in the response of the create call, and the
\* event loop runs the first step of the task that call created before it
\* serves a later request.
Nameable ==
  {id \in scope.pool : id \in DOMAIN tasks => tasks[id].pc # "created"}

Next ==
  \/ \E req \in PreviewRequests, id \in IdPool : start_preview(req, id)
  \/ \E j \in IdPool, located \in BOOLEAN : run_progressive_start(j, located)
  \/ \E j \in IdPool, res \in GraphValues : streets_fetched(j, res)
  \/ \E j \in IdPool : streets_wake(j)
  \/ \E j \in IdPool, res \in FeatureValues : water_fetched(j, res)
  \/ \E j \in IdPool, res \in FeatureValues : parks_fetched(j, res)
  \/ \E j \in IdPool : features_wake(j)
  \/ \E j \in IdPool, ok \in BOOLEAN : rendered(j, ok)
  \/ \E j \in IdPool : render_wake(j)
  \/ \E j \in IdPool : widen_start(j)
  \/ \E j \in IdPool, res \in GraphValues : widen_after_fetch(j, res)
  \/ \E j \in IdPool, res \in FeatureValues : widen_after_water(j, res)
  \/ \E j \in IdPool, res \in FeatureValues : widen_after_parks(j, res)
  \/ \E j \in IdPool, ok \in BOOLEAN : widen_after_render(j, ok)
  \/ \E req \in PosterRequests, id \in IdPool :
       start_final_generation(req, id)
  \/ \E j \in IdPool, located \in BOOLEAN : final_start(j, located)
  \/ \E j \in IdPool, res \in GraphValues : final_after_fetch(j, res)
  \/ \E j \in IdPool, res \in FeatureValues : final_after_water(j, res)
  \/ \E j \in IdPool, res \in FeatureValues : final_after_parks(j, res)
  \/ \E j \in IdPool, ok \in BOOLEAN : final_after_render(j, ok)
  \/ \E id \in Nameable : cancel_job(id)
  \/ \E id \in Nameable, r \in SwitchRadii : switch_radius(id, r)
  \/ \E id \in Nameable, th \in SwitchThemes : switch_theme(id, th)
  \/ \E h \in handlers, ok \in BOOLEAN : switch_theme_done(h, ok)
  \/ \E id \in Nameable, d \in ToggleDeltas : toggle_features(id, d)
  \/ \E h \in handlers, ok \in BOOLEAN : toggle_features_done(h, ok)
  \/ cleanup_old_jobs
  \/ Tick

Spec == Init /\ [][Next]_vars

\* The server as its clients see it within one sweeper interval: every
\* request and every task step, the responses kept, the clock standing.
ApiNext ==
  \/ \E req \in PreviewRequests, id \in IdPool : start_preview(req, id)
  \/ \E j \in IdPool, located \in BOOLEAN : run_progressive_start(j, located)
  \/ \E j \in IdPool, res \in GraphValues : streets_fetched(j, res)
  \/ \E j \in IdPool : streets_wake(j)
  \/ \E j \in IdPool, res \in FeatureValues : water_fetched(j, res)
  \/ \E j \in IdPool, res \in FeatureValues : parks_fetched(j, res)
  \/ \E j \in IdPool : features_wake(j)
  \/ \E j \in IdPool, ok \in BOOLEAN : rendered(j, ok)
  \/ \E j \in IdPool : render_wake(j)
  \/ \E j \in IdPool : widen_start(j)
  \/ \E j \in IdPool, res \in GraphValues : widen_after_fetch(j, res)
  \/ \E j \in IdPool, res \in FeatureValues : widen_after_water(j, res)
  \/ \E j \in IdPool, res \in FeatureValues : widen_after_parks(j, res)
  \/ \E j \in IdPool, ok \in BOOLEAN : widen_after_render(j, ok)
  \/ \E req \in PosterRequests, id \in IdPool :
       start_final_generation(req, id)
  \/ \E j \in IdPool, located \in BOOLEAN : final_start(j, located)
  \/ \E j \in IdPool, res \in GraphValues : final_after_fetch(j, res)
  \/ \E j \in IdPool, res \in FeatureValues : final_after_water(j, res)
  \/ \E j \in IdPool, res \in FeatureValues : final_after_parks(j, res)
  \/ \E j \in IdPool, ok \in BOOLEAN : final_after_render(j, ok)
  \/ \E id \in Nameable : cancel_job(id)
  \/ \E id \in Nameable : progress_request(id)
  \/ \E id \in Nameable, r \in SwitchRadii : switch_radius(id, r)
  \/ \E id \in Nameable, th \in SwitchThemes : switch_theme(id, th)
  \/ \E h \in handlers, ok \in BOOLEAN : switch_theme_done(h, ok)
  \/ \E id \in Nameable, d \in ToggleDeltas : toggle_features(id, d)
  \/ \E h \in handlers, ok \in BOOLEAN : toggle_features_done(h, ok)

ApiSpec == ApiInit /\ [][ApiNext]_vars

\* The two creating endpoints and the tasks they start, with uuid4 free to
\* draw again the eight digits of a job whose tasks have returned.
DrawInit ==
  /\ jobs = << >>
  /\ cancelled_jobs = {}
  /\ tasks = << >>
  /\ widen = << >>
  /\ handlers = {}
  /\ fetch_count = << >>
  /\ next_sweep = CLEANUP_INTERVAL_SECONDS
  /\ now = 0
  /\ reply = NoReply
  /\ scope = [recording |-> TRUE, inflight |-> MaxInflight,
              redraw |-> TRUE, pool |-> IdPool]

DrawNext ==
  \/ \E req \in PreviewRequests, id \in IdPool : start_preview(req, id)
  \/ \E j \in IdPool, located \in BOOLEAN : run_progressive_start(j, located)
  \/ \E j \in IdPool, res \in GraphValues : streets_fetched(j, res)
  \/ \E j \in IdPool : streets_wake(j)
  \/ \E j \in IdPool, res \in FeatureValues : water_fetched(j, res)
  \/ \E j \in IdPool, res \in FeatureValues : parks_fetched(j, res)
  \/ \E j \in IdPool : features_wake(j)
  \/ \E j \in IdPool, ok \in BOOLEAN : rendered(j, ok)
  \/ \E j \in IdPool : render_wake(j)
  \/ \E j \in IdPool : widen_start(j)
  \/ \E j \in IdPool, res \in GraphValues : widen_after_fetch(j, res)
  \/ \E j \in IdPool, res \in FeatureValues : widen_after_water(j, res)
  \/ \E j \in IdPool, res \in FeatureValues : widen_after_parks(j, res)
  \/ \E j \in IdPool, ok \in BOOLEAN : widen_after_render(j, ok)
  \/ \E req \in PosterRequests, id \in IdPool :
       start_final_generation(req, id)
  \/ \E j \in IdPool, located \in BOOLEAN : final_start(j, located)
  \/ \E j \in IdPool, res \in GraphValues : final_after_fetch(j, res)
  \/ \E j \in IdPool, res \in FeatureValues : final_after_water(j, res)
  \/ \E j \in IdPool, res \in FeatureValues : final_after_parks(j, res)
  \/ \E j \in IdPool, ok \in BOOLEAN : final_after_render(j, ok)

DrawSpec == DrawInit /\ [][DrawNext]_vars

\* One preview job and the toggle_features calls on it, which may overlap:
\* a second call is served while the render of the first is in the pool.
OverlapInit ==
  /\ jobs = << >>
  /\ cancelled_jobs = {}
  /\ tasks = << >>
  /\ widen = << >>
  /\ handlers = {}
  /\ fetch_count = << >>
  /\ next_sweep = CLEANUP_INTERVAL_SECONDS
  /\ now = 0
  /\ reply = NoReply
  /\ scope = [recording |-> TRUE, inflight |-> MaxOverlap,
              redraw |-> FALSE, pool |-> IdPool]

OverlapNext ==
  \/ \E req \in PreviewRequests, id \in IdPool : start_preview(req, id)
  \/ \E j \in IdPool, located \in BOOLEAN : run_progressive_start(j, located)
  \/ \E j \in IdPool, res \in GraphValues : streets_fetched(j, res)
  \/ \E j \in IdPool : streets_wake(j)
  \/ \E j \in IdPool, res \in FeatureValues : water_fetched(j, res)
  \/ \E j \in IdPool, res \in FeatureValues : parks_fetched(j, res)
  \/ \E j \in IdPool : features_wake(j)
  \/ \E j \in IdPool, ok \in BOOLEAN : rendered(j, ok)
  \/ \E j \in IdPool : render_wake(j)
  \/ \E id \in Nameable, d \in ToggleBackDeltas : toggle_features(id, d)
  \/ \E h \in handlers, ok \in BOOLEAN : toggle_features_done(h, ok)

OverlapSpec == OverlapInit /\ [][OverlapNext]_vars

\* Two preview jobs side by side, each run to its end, and the switch_theme
\* calls on them.
PairInit ==
  /\ jobs = << >>
  /\ cancelled_jobs = {}
  /\ tasks = << >>
  /\ widen = << >>
  /\ handlers = {}
  /\ fetch_count = << >>
  /\ next_sweep = CLEANUP_INTERVAL_SECONDS
  /\ now = 0
  /\ reply = NoReply
  /\ scope = [recording |-> TRUE, inflight |-> MaxInflight,
              redraw |-> FALSE, pool |-> PairPool]

PairNext ==
  \/ \E req \in PreviewRequests, id \in PairPool : start_preview(req, id)
  \/ \E j \in PairPool, located \in BOOLEAN : run_progressive_start(j, located)
  \/ \E j \in PairPool, res \in GraphValues : streets_fetched(j, res)
  \/ \E j \in PairPool : streets_wake(j)
  \/ \E j \in PairPool, res \in FeatureValues : water_fetched(j, res)
  \/ \E j \in PairPool, res \in FeatureValues : parks_fetched(j, res)
  \/ \E j \in PairPool : features_wake(j)
  \/ \E j \in PairPool, ok \in BOOLEAN : rendered(j, ok)
  \/ \E j \in PairPool : render_wake(j)
  \/ \E id \in Nameable, th \in SwitchThemes : switch_theme(id, th)
  \/ \E h \in handlers, ok \in BOOLEAN : switch_theme_done(h, ok)

PairSpec == PairInit /\ [][PairNext]_vars

\* One preview job left to run: no cancel, no sweeper pass, the clock
\* standing; the client may switch radius, theme and features. The event loop resumes every task
\* that can run and every call handed to the pool returns or raises.
LiveNext ==
  \/ \E req \in PreviewRequests, id \in IdPool : start_preview(req, id)
  \/ \E j \in IdPool, located \in BOOLEAN : run_progressive_start(j, located)
  \/ \E j \in IdPool, res \in GraphValues : streets_fetched(j, res)
  \/ \E j \in IdPool : streets_wake(j)
  \/ \E j \in IdPool, res \in FeatureValues : water_fetched(j, res)
  \/ \E j \in IdPool, res \in FeatureValues : parks_fetched(j, res)
  \/ \E j \in IdPool : features_wake(j)
  \/ \E j \in IdPool, ok \in BOOLEAN : rendered(j, ok)
  \/ \E j \in IdPool : render_wake(j)
  \/ \E j \in IdPool : widen_start(j)
  \/ \E j \in IdPool, res \in GraphValues : widen_after_fetch(j, res)
  \/ \E j \in IdPool, res \in FeatureValues : widen_after_water(j, res)
  \/ \E j \in IdPool, res \in FeatureValues : widen_after_parks(j, res)
  \/ \E j \in IdPool, ok \in BOOLEAN : widen_after_render(j, ok)
  \/ \E id \in Nameable, r \in SwitchRadii : switch_radius(id, r)
  \/ \E id \in Nameable, th \in SwitchThemes : switch_theme(id, th)
  \/ \E h \in handlers, ok \in BOOLEAN : switch_theme_done(h, ok)
  \/ \E id \in Nameable, d \in ToggleDeltas : toggle_features(id, d)
  \/ \E h \in handlers, ok \in BOOLEAN : toggle_features_done(h, ok)

\* the steps of the tasks and of the pool, each taken if it stays possible
LiveFairness ==
  /\ WF_vars(\E j \in IdPool, located \in BOOLEAN :
               run_progressive_start(j, located))
  /\ WF_vars(\E j \in IdPool, res \in GraphValues : streets_fetched(j, res))
  /\ WF_vars(\E j \in IdPool : streets_wake(j))
  /\ WF_vars(\E j \in IdPool, res \in FeatureValues : water_fetched(j, res))
  /\ WF_vars(\E j \in IdPool, res \in FeatureValues : parks_fetched(j, res))
  /\ WF_vars(\E j \in IdPool : features_wake(j))
  /\ WF_vars(\E j \in IdPool, ok \in BOOLEAN : rendered(j, ok))
  /\ WF_vars(\E j \in IdPool : render_wake(j))
  /\ WF_vars(\E j \in IdPool : widen_start(j))
  /\ WF_vars(\E j \in IdPool, res \in GraphValues :
               widen_after_fetch(j, res))
  /\ WF_vars(\E j \in IdPool, res \in FeatureValues :
               widen_after_water(j, res))
  /\ WF_vars(\E j \in IdPool, res \in FeatureValues :
               widen_after_parks(j, res))
  /\ WF_vars(\E j \in IdPool, ok \in BOOLEAN : widen_after_render(j, ok))
  /\ WF_vars(\E h \in handlers, ok \in BOOLEAN : switch_theme_done(h, ok))
  /\ WF_vars(\E h \in handlers, ok \in BOOLEAN : toggle_features_done(h, ok))

LiveSpec == Init /\ [][LiveNext]_vars /\ LiveFairness

\* ------------------------------------------------------------------------
\* Properties
\* ------------------------------------------------------------------------

PreviewJobs == {j \in DOMAIN jobs : jobs[j].kind = "preview"}
ReadyRadii(job) ==
  {r \in DOMAIN job.radiuses : job.radiuses[r].status = "ready"}
\* the time.time() of the sweeper's last pass (0: none yet)
LastSweep == next_sweep - CLEANUP_INTERVAL_SECONDS
\* the cached datasets and derived render parameters of a slot
Cache(slot) ==
  <<slot.graph_drive, slot.graph_all, slot.water, slot.parks,
    slot.compensated_dist>>

\* C1: once get-status reports 'cancelled' for a job, every later get-status
\* reports 'cancelled', or 'not_found' once the job is evicted.
C1_CancelledIsFinal ==
  [][\A j \in DOMAIN jobs :
       get_progress(j).status = "cancelled"
         => get_progress(j)'.status \in {"cancelled", "not_found"}]_vars

\* C2: once a job is cancelled, none of its Radius Slots becomes 'ready'.
C2_NoReadyAfterCancel ==
  [][\A j \in (cancelled_jobs \cap DOMAIN jobs) \cap DOMAIN jobs' :
       \A r \in DOMAIN jobs[j].radiuses :
         jobs[j].radiuses[r].status # "ready"
           => jobs'[j].radiuses[r].status # "ready"]_vars

\* C3: a status of 'complete' or 'error' never changes while the job is in
\* the registry.
C3_CompleteAndErrorAreFinal ==
  [][\A j \in DOMAIN jobs \cap DOMAIN jobs' :
       jobs[j].status \in {"complete", "error"}
         => jobs'[j].status = jobs[j].status]_vars

\* C4: once a job's status is terminal no field of its record changes; the
\* record can only be deleted.
C4_TerminalRecordFrozen ==
  [][\A j \in DOMAIN jobs \cap DOMAIN jobs' :
       jobs[j].status \in TerminalStatus => jobs'[j] = jobs[j]]_vars

\* C5: the percent a get-status snapshot reports is within 0..100, and from
\* one snapshot to the next it does not decrease while the job is not in a
\* terminal status.
C5_PercentMonotone ==
  [][\A j \in DOMAIN jobs' :
       /\ get_progress(j)'.percent \in 0..100
       /\ (j \in DOMAIN jobs /\ jobs[j].status \notin TerminalStatus)
            => get_progress(j)'.percent >= get_progress(j).percent]_vars

\* C5 witness: a running job whose percent the render loop has raised to
\* its cap after the clock advanced.
C5_Witness ==
  \E j \in DOMAIN jobs :
    /\ jobs[j].status = "running"
    /\ jobs[j].percent = 95
    /\ tasks[j].pc = "render"

\* C6 as stated: every complete job has a ready Radius Slot.
C6_CompleteHasReadySlot ==
  \A j \in DOMAIN jobs :
    jobs[j].status = "complete" => ReadyRadii(jobs[j]) # {}

\* C6 amended: every complete preview job has a ready Radius Slot (a final
\* generation job has no slots).
C6_PreviewCompleteHasReadySlot ==
  \A j \in PreviewJobs :
    jobs[j].status = "complete" => ReadyRadii(jobs[j]) # {}

\* C6 witness: a complete preview job
C6_Witness ==
  \E j \in PreviewJobs :
    jobs[j].status = "complete" /\ INITIAL_RADIUS \in ReadyRadii(jobs[j])

\* C7 as stated: a complete job has exactly one ready slot, and that slot's
\* artifact URL is set.
C7_CompleteExactlyOneReady ==
  \A j \in DOMAIN jobs :
    jobs[j].status = "complete"
      => /\ Cardinality(ReadyRadii(jobs[j])) = 1
         /\ \A r \in ReadyRadii(jobs[j]) :
              ~IsNone(jobs[j].radiuses[r].preview_url)

\* C7 amended: a complete preview job has at least one ready slot, and every
\* ready slot's artifact URL is set.
C7_CompleteReadySlotsHaveUrl ==
  \A j \in PreviewJobs :
    jobs[j].status = "complete"
      => /\ Cardinality(ReadyRadii(jobs[j])) >= 1
         /\ \A r \in ReadyRadii(jobs[j]) :
              ~IsNone(jobs[j].radiuses[r].preview_url)

\* C7 witness: a complete preview job with both available slots ready
C7_Witness ==
  \E j \in PreviewJobs :
    jobs[j].status = "complete" /\ ReadyRadii(jobs[j]) = AVAILABLE_RADIUSES

\* C8: a preview job's artifact URL is the last-rendered URL of the slot its
\* current radius selects.
C8_ArtifactIsCurrentSlots ==
  \A j \in PreviewJobs :
    jobs[j].preview_url =
      jobs[j].radiuses[jobs[j].current_radius[1]].preview_url

\* a step of toggle_features or switch_theme, before or after its render
ReRenderStep ==
  \/ \E id \in Nameable, d \in ToggleDeltas : toggle_features(id, d)
  \/ \E id \in Nameable, th \in SwitchThemes : switch_theme(id, th)
  \/ \E h \in handlers, ok \in BOOLEAN : toggle_features_done(h, ok)
  \/ \E h \in handlers, ok \in BOOLEAN : switch_theme_done(h, ok)

\* C9: a toggle-features or switch-theme step submits no fetch and leaves
\* every slot's cached datasets as they were; the fetch count of a ready slot
\* is 1 after it.
C9_ReRenderNeverFetches ==
  [][ReRenderStep =>
       /\ fetch_count' = fetch_count
       /\ \A j \in DOMAIN jobs \cap DOMAIN jobs' :
            \A r \in DOMAIN jobs[j].radiuses :
              /\ Cache(jobs'[j].radiuses[r]) = Cache(jobs[j].radiuses[r])
              /\ jobs'[j].radiuses[r].status = "ready"
                   => fetch_count'[j][r] = 1]_vars

\* C9 witness: a job re-rendered by a theme switch and then by a feature
\* toggle that filters the roads, its initial slot fetched once.
C9_Witness ==
  \E j \in PreviewJobs :
    /\ jobs[j].theme_name = Some("sunset")
    /\ ~jobs[j].features[1].roads_paths
    /\ ~IsNone(jobs[j].preview_url)
    /\ ~IsNone(jobs[j].preview_url[1].hash)
    /\ fetch_count[j][INITIAL_RADIUS] = 1

\* C10: a job that was older than the time-to-live at the sweeper's last
\* pass is no longer in the registry, and get-status says 'not_found'.
C10_SweptJobsAreGone ==
  \A j \in DOMAIN tasks :
    LastSweep - tasks[j].born > JOB_EXPIRY_SECONDS
      => get_progress(j).status = "not_found"

\* C11: switch_radius on a radius whose slot is 'locked' answers 403 (the
\* Locked error) and leaves the registry as it was; the step that marks a
\* job with slots 'complete' leaves its current radius at the initial radius
\* and its artifact URL at that slot's.
C11_LockedRadiusRefused ==
  [][/\ \A id \in DOMAIN jobs :
          \A r \in DOMAIN jobs[id].radiuses :
            (jobs[id].radiuses[r].status = "locked" /\ switch_radius(id, r))
              => /\ reply'.code = 403
                 /\ reply'.status = "requires signup"
                 /\ jobs' = jobs
     /\ \A j \in PreviewJobs \cap DOMAIN jobs' :
          (jobs[j].status # "complete" /\ jobs'[j].status = "complete")
            => /\ jobs'[j].current_radius = Some(INITIAL_RADIUS)
               /\ ~IsNone(jobs'[j].preview_url)
               /\ jobs'[j].preview_url =
                    jobs'[j].radiuses[INITIAL_RADIUS].preview_url]_vars

\* C11 witness: a complete job whose active artifact is the initial
\* radius's, just refused a locked radius
C11_Witness ==
  /\ reply.op = "switch_radius"
  /\ reply.code = 403
  /\ \E j \in PreviewJobs :
       /\ jobs[j].status = "complete"
       /\ jobs[j].current_radius = Some(INITIAL_RADIUS)
       /\ jobs[j].preview_url = jobs[j].radiuses[INITIAL_RADIUS].preview_url

\* the statuses of a slot that is neither ready nor locked
NotReadyStatus == {"pending", "loading", "error"}

\* C12: toggle_features and switch_theme on a job whose current slot is
\* pending, loading or in error, and switch_radius to such a slot, answer 400
\* (not ready) and leave the registry and the re-renders in flight as they
\* were.
C12_NotReadyRefused ==
  [][\A id \in PreviewJobs :
       LET job == jobs[id]
           cur == job.radiuses[job.current_radius[1]]
       IN /\ cur.status \in NotReadyStatus
               => /\ \A d \in ToggleDeltas :
                       toggle_features(id, d)
                         => /\ reply'.code = 400
                            /\ reply'.status = "Preview data not ready"
                            /\ jobs' = jobs /\ handlers' = handlers
                  /\ \A th \in SwitchThemes :
                       switch_theme(id, th)
                         => /\ reply'.code = 400
                            /\ reply'.status = "Preview data not ready"
                            /\ jobs' = jobs /\ handlers' = handlers
          /\ \A r \in DOMAIN job.radiuses :
               (job.radiuses[r].status \in NotReadyStatus
                  /\ switch_radius(id, r))
                 => /\ reply'.code = 400
                    /\ reply'.status = "still loading"
                    /\ jobs' = jobs /\ handlers' = handlers]_vars

\* C12 witness: toggle_features was just refused on a job whose current
\* slot is loading with its street network already cached
C12_Witness ==
  /\ reply.op = "toggle_features"
  /\ reply.code = 400
  /\ \E j \in PreviewJobs :
       LET cur == jobs[j].radiuses[jobs[j].current_radius[1]]
       IN cur.status = "loading" /\ ~IsNone(cur.graph_all)

\* a refused switch_radius to a slot whose fetch failed
C12_WitnessRadius ==
  /\ reply.op = "switch_radius"
  /\ reply.status = "still loading"
  /\ \E j \in PreviewJobs : jobs[j].radiuses[WidenRadius].status = "error"

\* C13: get-status for an identifier that is not in the registry answers
\* 200 with the snapshot {status: 'not_found'}, and a get-status step changes
\* nothing in the server.
C13_UnknownIdIsNotFound ==
  [][\A id \in IdPool :
       progress_request(id)
         => /\ UNCHANGED svars
            /\ id \notin DOMAIN jobs
                 => /\ reply'.code = 200
                    /\ reply'.status = "not_found"
                    /\ reply'.snapshot = Some([status |-> "not_found"])]_vars

\* C13 witness: a poll just answered 'not_found'
C13_Witness ==
  /\ reply.op = "get_progress"
  /\ reply.status = "not_found"
  /\ jobs = << >>

\* the same for an evicted job, on the registry itself: whenever a job that
\* was created is no longer in the registry, its snapshot is 'not_found'
C13_EvictedIsNotFound ==
  \A id \in DOMAIN tasks \ DOMAIN jobs :
    get_progress(id) = [status |-> "not_found"]
C13_WitnessEvicted == DOMAIN tasks \ DOMAIN jobs # {}

\* C14: a create request with an available theme answers 200 with the new
\* identifier and status 'started'; when it returns, the record is in the
\* registry with status 'starting', the job's task has not run a step and no
\* fetch has been submitted.
C14_CreateReturnsAtOnce ==
  [][\A id \in IdPool :
       /\ \A req \in PreviewRequests :
            (req.theme \in AvailableThemes /\ start_preview(req, id))
              => /\ reply' = [Reply("start_preview", 200, "started")
                                EXCEPT !.job_id = Some(id)]
                 /\ get_progress(id)'.status = "starting"
                 /\ tasks'[id].pc = "created"
                 /\ \A k \in FetchKeys : fetch_count'[id][k] = 0
       /\ \A req \in PosterRequests :
            (req.theme \in AvailableThemes
               /\ start_final_generation(req, id))
              => /\ reply' = [Reply("start_final_generation", 200, "started")
                                EXCEPT !.job_id = Some(id)]
                 /\ get_progress(id)'.status = "starting"
                 /\ tasks'[id].pc = "created"
                 /\ \A k \in FetchKeys : fetch_count'[id][k] = 0]_vars

\* C14 witness: create-job has just answered and the job is 'starting'
C14_Witness ==
  /\ reply.op = "start_preview"
  /\ reply.status = "started"
  /\ \E j \in DOMAIN jobs :
       /\ reply.job_id = Some(j)
       /\ jobs[j].status = "starting"
       /\ tasks[j].pc = "created"

\* C15: a create request (preview or final) whose theme is not an available
\* theme answers 400 and leaves the server as it was: no record, no task.
C15_UnknownThemeRejected ==
  [][\A id \in IdPool :
       /\ \A req \in PreviewRequests :
            (req.theme \notin AvailableThemes /\ start_preview(req, id))
              => /\ reply'.code = 400
                 /\ reply'.status = "Theme not found"
                 /\ UNCHANGED svars
       /\ \A req \in PosterRequests :
            (req.theme \notin AvailableThemes
               /\ start_final_generation(req, id))
              => /\ reply'.code = 400
                 /\ reply'.status = "Theme not found"
                 /\ UNCHANGED svars]_vars

\* C15 witness: a create request was just rejected for its theme, and the
\* registry and the task table are empty
C15_Witness ==
  /\ reply.op \in {"start_preview", "start_final_generation"}
  /\ reply.code = 400
  /\ jobs = << >>
  /\ tasks = << >>

\* the three road-category flags are off
AllRoadsOff(f) == ~f.roads_drive /\ ~f.roads_paths /\ ~f.roads_cycling

\* C16: when a toggle_features call leaves the three road flags off, the
\* render it submits is given the slot's cached street network as it is, and
\* plots every edge of it: at least one when the network has edges.
C16_AllRoadsOffRendersAll ==
  [][\A id \in PreviewJobs, d \in ToggleDeltas :
       LET job == jobs[id]
           rd == job.radiuses[job.current_radius[1]]
       IN (/\ rerender_error("toggle_features", id) = NoReply
           /\ AllRoadsOff(MergeFeatures(job.features[1], d))
           /\ toggle_features(id, d))
            => \A h \in handlers' \ handlers :
                 /\ h.graph = rd.graph_all
                 /\ RenderedEdges(h.graph) = rd.graph_all[1].edges
                 /\ rd.graph_all[1].edges # {} => RenderedEdges(h.graph) # {}
    ]_vars

\* C16 witness: a render in flight for a flag set with the three road flags
\* off
C16_Witness ==
  \E h \in handlers :
    /\ h.op = "features"
    /\ AllRoadsOff(h.features[1])
    /\ RenderedEdges(h.graph) # {}

\* what a toggle_features step does to the flags: each flag of the delta
\* takes the given value, every other flag keeps its own, and the job
\* stores the result
MergeStepOk(id, d) ==
  (rerender_error("toggle_features", id) = NoReply /\ toggle_features(id, d))
    => /\ \A k \in Flags :
            jobs'[id].features[1][k] =
              IF IsNone(d[k]) THEN jobs[id].features[1][k] ELSE d[k][1]
       /\ \A h \in handlers' \ handlers : h.features = jobs'[id].features

\* C17 as stated: the merge is as above, and the response of the call
\* carries the flag set that this call merged.
C17_ReplyIsCallsMergedSet ==
  [][/\ \A id \in PreviewJobs, d \in ToggleBackDeltas : MergeStepOk(id, d)
     /\ \A h \in handlers :
          toggle_features_done(h, TRUE) => reply'.features = h.features]_vars

\* C17 amended: the merge is as above, and the response of the call carries
\* the flag set the job stores when the render has returned.
C17_ReplyIsStoredSet ==
  [][/\ \A id \in PreviewJobs, d \in ToggleBackDeltas : MergeStepOk(id, d)
     /\ \A h \in handlers :
          (h.id \in DOMAIN jobs /\ toggle_features_done(h, TRUE))
            => reply'.features = jobs'[h.id].features]_vars

\* C17 witness: a response that carries the flags of two deltas, water off
\* by one call and paths off by another, the flags of no delta still on
C17_Witness ==
  /\ reply.op = "toggle_features"
  /\ reply.code = 200
  /\ \E j \in PreviewJobs :
       /\ reply.features = jobs[j].features
       /\ ~jobs[j].features[1].water
       /\ ~jobs[j].features[1].roads_paths
       /\ jobs[j].features[1].parks
       /\ jobs[j].features[1].roads_drive

\* the flag set differs from the job's: the call changes a flag
ChangesAFlag(id, d) ==
  MergeFeatures(jobs[id].features[1], d) # jobs[id].features[1]

\* what the step that ends a toggle_features call writes: the URL of its
\* render on the job and on the slot that was current when the call began,
\* with that slot's street network still fetched once
ToggleDoneOk ==
  \A h \in handlers :
    (h.id \in DOMAIN jobs /\ toggle_features_done(h, TRUE))
      => /\ jobs'[h.id].preview_url = Some(h.url)
         /\ jobs'[h.id].radiuses[h.radius].preview_url = Some(h.url)
         /\ fetch_count'[h.id][h.radius] = 1

\* C18 as stated: on a complete job, a toggle_features call that changes a
\* flag renders to a URL that differs from the job's artifact URL before the
\* call, sets it on the job and the slot, and fetches nothing.
C18_ToggleUrlIsNew ==
  [][/\ \A id \in PreviewJobs, d \in ToggleBackDeltas :
          (/\ jobs[id].status = "complete"
           /\ rerender_error("toggle_features", id) = NoReply
           /\ ChangesAFlag(id, d)
           /\ toggle_features(id, d))
            => /\ fetch_count' = fetch_count
               /\ \A h \in handlers' \ handlers :
                    Some(h.url) # jobs[id].preview_url
     /\ ToggleDoneOk]_vars

\* C18 amended: the URL is the one named by the base name, the current
\* radius and the hash of the merged flags; it differs from the job's
\* artifact URL before the call when that one is not a toggle's, or is the
\* one rendered for the flags the job held before the call.
C18_ToggleUrlFollowsFlags ==
  [][/\ \A id \in PreviewJobs, d \in ToggleBackDeltas :
          LET job == jobs[id]
              cr == job.current_radius[1]
              prior == job.preview_url
          IN (/\ job.status = "complete"
              /\ rerender_error("toggle_features", id) = NoReply
              /\ ChangesAFlag(id, d)
              /\ toggle_features(id, d))
               => /\ fetch_count' = fetch_count
                  /\ \A h \in handlers' \ handlers :
                       /\ h.url = FeaturesUrl(job.base_name, cr,
                                              jobs'[id].features[1])
                       /\ (\/ IsNone(prior[1].hash)
                           \/ prior = Some(FeaturesUrl(job.base_name, cr,
                                                       job.features[1])))
                            => Some(h.url) # prior
     /\ ToggleDoneOk]_vars

\* C18 witness: water was switched off on a complete job; the job shows the
\* URL of that render, the initial slot too, fetched once
C18_Witness ==
  /\ reply.op = "toggle_features"
  /\ reply.code = 200
  /\ \E j \in PreviewJobs :
       /\ jobs[j].status = "complete"
       /\ ~jobs[j].features[1].water
       /\ jobs[j].preview_url =
            Some(FeaturesUrl(jobs[j].base_name, INITIAL_RADIUS,
                             jobs[j].features[1]))
       /\ jobs[j].radiuses[INITIAL_RADIUS].preview_url = jobs[j].preview_url
       /\ fetch_count[j][INITIAL_RADIUS] = 1

\* the components of a job's settings the data model names: place name,
\* theme identifier, requested dimensions
SettingsSnapshot(job) ==
  [city |-> job.settings[1].city, country |-> job.settings[1].country,
   theme |-> job.settings[1].theme,
   width |-> job.settings[1].width, height |-> job.settings[1].height]

\* jobs that hold settings in this state and in the next
SettledJobs ==
  {j \in DOMAIN jobs \cap DOMAIN jobs' :
     ~IsNone(jobs[j].settings) /\ ~IsNone(jobs'[j].settings)}

C20_CreateNeverOverwrites ==
  [][/\ \A req \in PreviewRequests, id \in IdPool :
          (start_preview_reply(req, id).code = 200 /\ start_preview(req, id))
            => id \notin DOMAIN jobs
     /\ \A req \in PosterRequests, id \in IdPool :
          (/\ start_final_generation_reply(req, id).code = 200
           /\ start_final_generation(req, id))
            => id \notin DOMAIN jobs]_vars

\* the pool calls a task holds
PoolCallNames == {"all_task", "water_task", "parks_task", "render_task"}

\* the step submits a call to the pool for job j: a future of one of the
\* job's tasks starts running, or a street fetch is counted
Submits(j) ==
  \/ /\ j \in DOMAIN tasks /\ j \in DOMAIN tasks'
     /\ \E n \in PoolCallNames :
          tasks'[j][n].st = "running" /\ tasks[j][n].st # "running"
  \/ /\ j \in DOMAIN widen /\ j \in DOMAIN widen'
     /\ \E n \in PoolCallNames :
          widen'[j][n].st = "running" /\ widen[j][n].st # "running"
  \/ /\ j \in DOMAIN fetch_count /\ j \in DOMAIN fetch_count'
     /\ \E k \in FetchKeys : fetch_count'[j][k] > fetch_count[j][k]

\* C21: once a job is in cancelled_jobs (its cancel was acknowledged), no
\* step of its pipeline, its widen task or its final-generation task
\* submits a fetch or a render to the pool.
C21_NoSubmitAfterCancel ==
  [][\A j \in cancelled_jobs : ~Submits(j)]_vars

\* the step in which the pipeline of job j takes the outcome of a failed
\* call for the initial radius: a street fetch that returned None, a water
\* or parks fetch that returned None, or a render that raised
InitialFailureSeen(j) ==
  /\ j \in DOMAIN tasks
  /\ tasks[j].kind = "preview"
  /\ \/ /\ tasks[j].pc = "streets"
        /\ IsDone(tasks[j].all_task)
        /\ IsNone(tasks[j].all_task.result)
        /\ streets_wake(j)
     \/ /\ tasks[j].pc = "features"
        /\ IsDone(tasks[j].water_task) /\ IsDone(tasks[j].parks_task)
        /\ (IsNone(tasks[j].water_task.result)
              \/ IsNone(tasks[j].parks_task.result))
        /\ features_wake(j)
     \/ /\ tasks[j].pc = "render"
        /\ tasks[j].render_task.st = "raised"
        /\ render_wake(j)

\* C22: the step that takes a failed street fetch, water or parks fetch or
\* render of the initial radius leaves the initial slot 'error' and the job
\* 'error' with an error detail.
C22_InitialFailureFailsSlotAndJob ==
  [][\A j \in PreviewJobs :
       InitialFailureSeen(j)
         => /\ jobs'[j].radiuses[INITIAL_RADIUS].status = "error"
            /\ jobs'[j].status = "error"
            /\ ~IsNone(jobs'[j].error)]_vars

\* the part of C22 the pipeline does: a failed street fetch or a render that
\* raised leaves the job 'error' with an error detail
C22_PrimaryOrRenderFailureFailsJob ==
  [][\A j \in PreviewJobs :
       (InitialFailureSeen(j) /\ tasks[j].pc # "features")
         => /\ jobs'[j].status = "error"
            /\ ~IsNone(jobs'[j].error)]_vars

\* where a pipeline task is suspended with a call in the pool
SuspendedAt == {"streets", "features", "render"}

\* C23: a pipeline task that resumes from a fetch or a render after the
\* sweeper deleted its job returns; it does not end with an exception.
C23_ResumedTaskStopsQuietly ==
  [][\A j \in DOMAIN tasks :
       (/\ j \notin DOMAIN jobs
        /\ tasks[j].pc \in SuspendedAt
        /\ tasks'[j].pc # tasks[j].pc)
         => tasks'[j].pc = "done"]_vars

\* C24: when the street fetch of the widen radius fails, the step sets that
\* slot to 'error' and changes nothing else of the job: its status (a
\* 'complete' job stays 'complete'), its artifact URL, its current radius
\* and its other slots, the ready initial slot among them, are as before.
C24_WidenFetchFailureIsLocal ==
  [][\A j \in PreviewJobs :
       (j \in DOMAIN widen /\ widen[j].pc = "fetch"
          /\ widen_after_fetch(j, None))
         => /\ jobs'[j].radiuses[WidenRadius].status = "error"
            /\ jobs'[j].status = jobs[j].status
            /\ jobs'[j].preview_url = jobs[j].preview_url
            /\ jobs'[j].current_radius = jobs[j].current_radius
            /\ \A r \in ALL_RADIUSES \ {WidenRadius} :
                 jobs'[j].radiuses[r] = jobs[j].radiuses[r]
            /\ jobs'[j] =
                 [jobs[j] EXCEPT !.radiuses[WidenRadius].status = "error"]
            /\ tasks' = tasks]_vars

\* C24 witness: a complete job whose widen slot is 'error' while its
\* initial slot is ready and current, its artifact URL the initial render's
C24_Witness ==
  \E j \in PreviewJobs :
    /\ jobs[j].status = "complete"
    /\ jobs[j].radiuses[WidenRadius].status = "error"
    /\ jobs[j].radiuses[INITIAL_RADIUS].status = "ready"
    /\ jobs[j].current_radius = Some(INITIAL_RADIUS)
    /\ jobs[j].preview_url =
         Some(MainUrl(jobs[j].base_name, INITIAL_RADIUS))
    /\ j \in DOMAIN widen /\ widen[j].pc = "done"

\* C25: with no cancel and no sweeper pass, and every pool call returning or
\* raising, a slot that is 'loading' is later 'ready' or 'error'.
C25_LoadingEnds ==
  \A j \in IdPool, r \in ALL_RADIUSES :
    (j \in DOMAIN jobs /\ jobs[j].radiuses[r].status = "loading")
      ~> (j \in DOMAIN jobs
          /\ jobs[j].radiuses[r].status \in {"ready", "error"})

\* C26: a step that makes a slot 'loading' finds it 'pending' with no
\* street fetch yet issued for it, and issues the one; no slot ever has more
\* than one street fetch issued.
C26_SlotClaimedOnce ==
  [][\A j \in PreviewJobs \cap DOMAIN jobs', r \in ALL_RADIUSES :
       /\ (/\ jobs'[j].radiuses[r].status = "loading"
           /\ jobs[j].radiuses[r].status # "loading")
            => /\ jobs[j].radiuses[r].status = "pending"
               /\ fetch_count[j][r] = 0
               /\ fetch_count'[j][r] = 1
       /\ (/\ jobs[j].radiuses[r].status = "pending"
           /\ jobs'[j].radiuses[r].status # "pending")
            => jobs'[j].radiuses[r].status = "loading"
       /\ jobs[j].radiuses[r].status # "pending"
            => jobs'[j].radiuses[r].status # "pending"
       /\ fetch_count'[j][r] <= 1]_vars

\* C26 witness: both free slots of a job were claimed, each fetched once
C26_Witness ==
  \E j \in PreviewJobs :
    /\ jobs[j].radiuses[INITIAL_RADIUS].status = "ready"
    /\ jobs[j].radiuses[WidenRadius].status \in {"ready", "error"}
    /\ fetch_count[j][INITIAL_RADIUS] = 1
    /\ fetch_count[j][WidenRadius] = 1

LoadingRadii(job) ==
  {r \in DOMAIN job.radiuses : job.radiuses[r].status = "loading"}

\* C28: a step that makes a slot other than the initial one 'loading' finds
\* the job's pipeline returned, the initial slot 'ready' and the job
\* 'complete'; in no state are two slots of a job 'loading'.
C28_WidenAfterInitial ==
  [][\A j \in PreviewJobs \cap DOMAIN jobs' :
       /\ \A r \in ALL_RADIUSES \ {INITIAL_RADIUS} :
            (/\ jobs'[j].radiuses[r].status = "loading"
             /\ jobs[j].radiuses[r].status # "loading")
              => /\ tasks[j].pc = "done"
                 /\ jobs[j].radiuses[INITIAL_RADIUS].status = "ready"
                 /\ jobs[j].status = "complete"
       /\ Cardinality(LoadingRadii(jobs[j])) <= 1
       /\ Cardinality(LoadingRadii(jobs'[j])) <= 1]_vars

\* C28 witness: the widen slot is 'loading' with its fetch in the pool while
\* the initial slot is ready and the job complete
C28_Witness ==
  \E j \in PreviewJobs :
    /\ jobs[j].radiuses[WidenRadius].status = "loading"
    /\ j \in DOMAIN widen /\ widen[j].pc = "fetch"
    /\ jobs[j].radiuses[INITIAL_RADIUS].status = "ready"
    /\ jobs[j].status = "complete"

\* the pool calls of a task were submitted in order: water or parks only
\* once the street fetch has returned a graph, the render only once the
\* street, water and parks fetches have all returned
CallsInOrder(t) ==
  /\ (t.water_task.st # "idle" \/ t.parks_task.st # "idle")
       => (t.all_task.st = "done" /\ ~IsNone(t.all_task.result))
  /\ t.render_task.st # "idle"
       => /\ t.all_task.st = "done"
          /\ t.water_task.st = "done"
          /\ t.parks_task.st = "done"

\* C29: for the initial radius and for the widen radius, the street fetch
\* has returned before the water or the parks fetch is submitted, and both
\* have returned before the render is submitted.
C29_FetchBeforeFeaturesBeforeRender ==
  /\ \A j \in DOMAIN tasks :
       tasks[j].kind = "preview" => CallsInOrder(tasks[j])
  /\ \A j \in DOMAIN widen : CallsInOrder(widen[j])

\* C29 witness: the widen render is in the pool after the initial render, and
\* the street, water and parks fetches of the widen radius have returned
C29_Witness ==
  \E j \in DOMAIN widen :
    /\ widen[j].render_task.st = "running"
    /\ widen[j].all_task.st = "done"
    /\ widen[j].water_task.st = "done"
    /\ widen[j].parks_task.st = "done"
    /\ j \in PreviewJobs
    /\ jobs[j].radiuses[INITIAL_RADIUS].status = "ready"

\* the initial pipeline at the same point
C29_WitnessInitial ==
  \E j \in DOMAIN tasks :
    /\ tasks[j].kind = "preview"
    /\ tasks[j].render_task.st = "running"
    /\ tasks[j].all_task.st = "done"
    /\ tasks[j].water_task.st = "done"
    /\ tasks[j].parks_task.st = "done"

\* C30: a step that brings a job's percent to 100 marks the job 'complete'
\* and is not taken for a job cancelled before; a job in 'error' does not
\* show percent 100.
C30_HundredOnlyOnSuccess ==
  [][\A j \in DOMAIN jobs \cap DOMAIN jobs' :
       /\ (jobs'[j].percent = 100 /\ jobs[j].percent # 100)
            => /\ jobs'[j].status = "complete"
               /\ j \notin cancelled_jobs
       /\ jobs'[j].status = "error" => jobs'[j].percent # 100]_vars

\* the part of C30 that holds: percent reaches 100 only in a step that marks
\* the job 'complete', and a job in 'error' does not show percent 100
C30_HundredOnlyByCompleteStep ==
  [][\A j \in DOMAIN jobs \cap DOMAIN jobs' :
       /\ (jobs'[j].percent = 100 /\ jobs[j].percent # 100)
            => jobs'[j].status = "complete"
       /\ jobs'[j].status = "error" => jobs'[j].percent # 100]_vars

\* C31: a job holds an artifact URL (the preview's or the poster's) only
\* while its status is 'complete'.
C31_ArtifactOnlyWhenComplete ==
  \A j \in DOMAIN jobs :
    (~IsNone(jobs[j].preview_url) \/ ~IsNone(jobs[j].poster_url))
      => jobs[j].status = "complete"

\* the part of C31 the tasks keep: the step that first gives a job an
\* artifact URL is a step that marks it 'complete'
C31_ArtifactAppearsOnComplete ==
  [][\A j \in DOMAIN jobs \cap DOMAIN jobs' :
       (/\ IsNone(jobs[j].preview_url) /\ IsNone(jobs[j].poster_url)
        /\ (~IsNone(jobs'[j].preview_url) \/ ~IsNone(jobs'[j].poster_url)))
         => jobs'[j].status = "complete"]_vars

\* C32: a cancel_job step on a job of the registry changes the job's status
\* and message and adds the identifier to cancelled_jobs, and nothing else:
\* every slot keeps its status, its cached datasets and its preview URL, and
\* the job keeps its artifact URL.
C32_CancelKeepsSlots ==
  [][\A id \in DOMAIN jobs :
       cancel_job(id)
         => /\ jobs' = [jobs EXCEPT ![id].status = "cancelled",
                                    ![id].message = <<"Cancelled">>]
            /\ jobs'[id].radiuses = jobs[id].radiuses
            /\ jobs'[id].preview_url = jobs[id].preview_url
            /\ cancelled_jobs' = cancelled_jobs \cup {id}
            /\ UNCHANGED <<tasks, widen, handlers, fetch_count>>]_vars

\* C32 witness: a cancel was just acknowledged for a job whose initial slot
\* is still 'ready' with its street graph and its preview
C32_Witness ==
  /\ reply.op = "cancel_job"
  /\ reply.status = "cancelled"
  /\ \E j \in PreviewJobs \cap cancelled_jobs :
       /\ jobs[j].status = "cancelled"
       /\ jobs[j].radiuses[INITIAL_RADIUS].status = "ready"
       /\ ~IsNone(jobs[j].radiuses[INITIAL_RADIUS].graph_all)
       /\ ~IsNone(jobs[j].radiuses[INITIAL_RADIUS].preview_url)

\* C33: the graph a switch_theme call hands to the render is the view
\* toggle_features renders for the job's current flags, the cached street
\* graph of the current slot filtered by the road flags that are on.
C33_ThemeRendersFilteredView ==
  [][\A id \in PreviewJobs, th \in SwitchThemes :
       (switch_theme_reply(id, th) = NoReply /\ switch_theme(id, th))
         => \A h \in handlers' \ handlers :
              RenderedEdges(h.graph) =
                RenderedEdges(
                  get_filtered_graph(
                    jobs[id].radiuses[jobs[id].current_radius[1]].graph_all,
                    jobs[id].features[1]))]_vars

\* the flag sets with at least one but not all road categories on
PartialRoadFlags ==
  {f \in [Flags -> BOOLEAN] :
     /\ f.roads_drive \/ f.roads_paths \/ f.roads_cycling
     /\ ~(f.roads_drive /\ f.roads_paths /\ f.roads_cycling)}
\* the union of the type sets of the categories that are on
EnabledTypes(f) ==
  UNION {IF f.roads_drive THEN HIGHWAY_DRIVE ELSE {},
         IF f.roads_paths THEN HIGHWAY_PATHS ELSE {},
         IF f.roads_cycling THEN HIGHWAY_CYCLING ELSE {}}
\* the edges of a graph with a highway type among `types`, an edge without
\* a tag counted as 'unclassified'
EdgesOfTypes(graph, types) ==
  {e \in graph.edges :
     \/ e.highway = << >> /\ "unclassified" \in types
     \/ \E i \in DOMAIN e.highway : e.highway[i] \in types}
FilterIsExact(graph, f) ==
  /\ get_filtered_graph(Some(graph), f) # None
  /\ get_filtered_graph(Some(graph), f)[1].edges
       = EdgesOfTypes(graph, EnabledTypes(f))

\* the filter is exact on every graph a fetch returns, for every partial
\* flag set
FilterIsExactEverywhere ==
  \A f \in PartialRoadFlags, r \in FetchKeys : FilterIsExact(GraphFor(r), f)

\* C34: for flags with some but not all road categories on, the filtered
\* view holds exactly the edges of the cached graph with a highway type in
\* the union of the enabled categories' types (no tag read as
\* 'unclassified'); a toggle_features call that filters so hands that view
\* to the render and leaves the cached graph as it was.
C34_FilteredViewIsExact ==
  [][/\ FilterIsExactEverywhere
     /\ \A id \in PreviewJobs, d \in ToggleBackDeltas :
          (/\ rerender_error("toggle_features", id) = NoReply
           /\ toggle_features(id, d)
           /\ jobs'[id].features[1] \in PartialRoadFlags)
            => LET cr == jobs[id].current_radius[1]
                   g == jobs[id].radiuses[cr].graph_all
               IN /\ jobs'[id].radiuses[cr].graph_all = g
                  /\ \A h \in handlers' \ handlers :
                       RenderedEdges(h.graph) =
                         EdgesOfTypes(g[1],
                                      EnabledTypes(jobs'[id].features[1]))]_vars
\* a toggle_features render in flight for partial road flags whose view
\* left out edges the cached graph still holds
C34_Witness ==
  \E h \in handlers :
    /\ h.op = "features"
    /\ h.id \in DOMAIN jobs
    /\ h.features[1] \in PartialRoadFlags
    /\ jobs[h.id].radiuses[h.radius].graph_all # None
    /\ RenderedEdges(h.graph)
         # RenderedEdges(jobs[h.id].radiuses[h.radius].graph_all)
    /\ RenderedEdges(h.graph) # {}

\* C35: when the last of the toggle_features calls in flight on a job
\* returns from a render that succeeded, right after another call on the
\* job returned from its own, the job's artifact URL is the one rendered
\* for the flag set the job holds.
C35_LastToggleLeavesFinalFlagsUrl ==
  [][\A h \in handlers :
       (/\ h.id \in DOMAIN jobs
        /\ reply.op = "toggle_features"
        /\ reply.code = 200
        /\ toggle_features_done(h, TRUE)
        /\ \A g \in handlers' : g.id # h.id)
         => jobs'[h.id].preview_url =
              Some(FeaturesUrl(jobs'[h.id].base_name,
                               jobs'[h.id].current_radius[1],
                               jobs'[h.id].features[1]))]_vars

\* C36: the artifact URL a switch_theme call writes on its job differs from
\* the artifact URL of every other preview job, a job of the same place,
\* theme and radius re-rendered in the same theme included.
C36_ThemeUrlsDifferAcrossJobs ==
  [][\A h \in handlers, k \in PreviewJobs :
       (/\ h.op = "theme"
        /\ h.id \in DOMAIN jobs
        /\ k # h.id
        /\ switch_theme_done(h, TRUE))
         => jobs'[h.id].preview_url # jobs'[k].preview_url]_vars

\* no toggle_features render has succeeded on the job: the job's artifact
\* URL carries no feature hash (where toggle_features is the only
\* re-render, a URL with a hash stays once written)
NoToggleSucceeded(j) ==
  /\ ~IsNone(jobs[j].preview_url)
  /\ IsNone(jobs[j].preview_url[1].hash)

\* C37: a toggle_features call whose render failed leaves the job as it was
\* before the call; so a job on which every call so far has failed, the
\* last one just answered with a 500, still holds the flags it was created
\* with.
C37_FailedToggleKeepsFlags ==
  \A j \in PreviewJobs :
    (/\ reply.op = "toggle_features"
     /\ reply.code = 500
     /\ \A h \in handlers : h.id # j
     /\ NoToggleSucceeded(j))
      => jobs[j].features = Some(DefaultFeatures)

\* C37, the part that holds: up to the await a toggle_features call writes
\* the job's flags and nothing else, and a render that failed writes
\* nothing: the artifact URLs, the slot status and the cached data stay.
C37_FailedToggleKeepsUrlsAndCache ==
  [][/\ \A id \in PreviewJobs, d \in ToggleBackDeltas :
          (/\ rerender_error("toggle_features", id) = NoReply
           /\ toggle_features(id, d))
            => jobs' = [jobs EXCEPT ![id].features = jobs'[id].features]
     /\ \A h \in handlers :
          toggle_features_done(h, FALSE) => jobs' = jobs]_vars

\* C38: with no cancel and no sweeper pass, every task step taken when it
\* can be and every pool call returning or raising, a preview job that is
\* 'starting' or 'running' is later 'complete' or 'error'.
C38_PreviewJobEnds ==
  \A j \in IdPool :
    (/\ j \in PreviewJobs
     /\ jobs[j].status \in {"starting", "running"})
      ~> (/\ j \in PreviewJobs
          /\ jobs[j].status \in {"complete", "error"})
\* a preview job whose task has returned after each way its run can end:
\* here the one that ends in 'error' after the render was submitted
C38_Witness ==
  \E j \in PreviewJobs :
    /\ jobs[j].status = "error"
    /\ tasks[j].pc = "done"
    /\ jobs[j].radiuses[INITIAL_RADIUS].graph_all # None
    /\ j \notin cancelled_jobs

\* C39: a job leaves the registry only in a pass of the sweeper, and only
\* when it carries a creation time and the clock at that pass exceeds it
\* by more than JOB_EXPIRY_SECONDS; no other step removes a job.
C39_OnlyExpiredJobsLeave ==
  [][\A j \in DOMAIN jobs :
       j \notin DOMAIN jobs'
         => /\ cleanup_old_jobs
            /\ ~IsNone(jobs[j].created_at)
            /\ now - jobs[j].created_at[1] > JOB_EXPIRY_SECONDS]_vars
\* a job the sweeper has deleted, older than the time-to-live
C39_Witness ==
  \E j \in DOMAIN tasks :
    /\ j \notin DOMAIN jobs
    /\ tasks[j].kind = "preview"
    /\ now - tasks[j].born > JOB_EXPIRY_SECONDS
    /\ next_sweep = now + CLEANUP_INTERVAL_SECONDS

\* C40: the cancellation flags are flags of jobs in the registry, in every
\* state; a cancel_job naming no job of the registry adds no flag and
\* answers 'not_found'; a job the sweeper deletes has no flag after the
\* step that deletes it.
C40_FlagsAreOfRegisteredJobs ==
  /\ [](cancelled_jobs \subseteq DOMAIN jobs)
  /\ [][/\ \A id \in IdPool :
            (id \notin DOMAIN jobs /\ cancel_job(id))
              => /\ cancelled_jobs' = cancelled_jobs
                 /\ cancel_job_reply(id).status = "not_found"
       /\ cleanup_old_jobs
            => \A j \in DOMAIN jobs \ DOMAIN jobs' :
                 j \notin cancelled_jobs']_vars
\* a cancelled job, its flag set, that has outlived the time-to-live after
\* a pass of the sweeper: the next pass deletes the job and the flag
C40_Witness ==
  \E j \in cancelled_jobs :
    /\ j \in ExpiredJobs(now)
    /\ jobs[j].status = "cancelled"
    /\ next_sweep > CLEANUP_INTERVAL_SECONDS
    /\ now >= next_sweep

====
